---- MODULE Spec2Model ----
(***************************************************************************)
(* A model of the melodyGen backend core: the scale helpers, the melody    *)
(* validator (constraints.py) and the melody interpolator (interpolate.py).*)
(*                                                                         *)
(* The core is a set of pure methods on objects configured once with a     *)
(* scale name and a root note.  The state is that configuration, the       *)
(* caller's variation objects (which filter_valid_variations mutates in    *)
(* place) and the record of the last call: its name, arguments and result. *)
(* Each public method is one action; its inputs are drawn with \E.         *)
(*                                                                         *)
(* Python floats are modelled by exact rationals <<numerator,denominator>>.*)
(* Times, durations and velocities are in the source's own units (seconds, *)
(* 0..1).  On the pitch and step ranges used here the double-precision     *)
(* evaluation of every truncated expression yields the same integer as the *)
(* exact one (for other inputs a blend that is mathematically a whole      *)
(* number may evaluate just below it, e.g. 62 comes out 61 at steps = 6).   *)
(***************************************************************************)
EXTENDS Integers, Sequences, FiniteSets, TLC

VARIABLES
    scale_type,   \* self.scale_type of the validator / interpolator
    root_note,    \* self.root_note
    set_order,    \* iteration order of list(set(...)) in this build
    op,           \* name of the method that was called ("idle" between calls)
    args,         \* its arguments
    ret,          \* its outcome: [raised |-> BOOLEAN, value |-> ...]
    variations,   \* the caller's variation objects, addressed by index
    random_state, \* the state of the module random: the numbers it yields next
    clock,        \* the wall clock read by time.time() and datetime.now()
    _loops,       \* LoopManager._loops
    history,      \* the calls that changed a service object so far, oldest first
    completion_events,   \* main.py: completion_events
    pending_events,      \* main.py: pending_events
    active_websockets,   \* main.py: active_websockets
    _completion_events,  \* EventBroadcaster._completion_events
    _pending_events,     \* EventBroadcaster._pending_events
    _active_websockets,  \* EventBroadcaster._active_websockets
    handler,      \* the events built by handler threads and not yet stored
    task,         \* the broadcast task: its position and its local variables
    wire          \* per WebSocket, the events send_json was called with, in order

\* the state of the services and of the random source and clock
services ==
    <<random_state, clock, _loops, history,
      completion_events, pending_events, active_websockets,
      _completion_events, _pending_events, _active_websockets,
      handler, task, wire>>

vars == <<scale_type, root_note, set_order, op, args, ret, variations, services>>

\* the broadcast task before its first iteration
TaskIdle == [pc |-> "loop", events_to_send |-> <<>>, websockets_to_notify |-> <<>>,
             event |-> 1, websocket |-> 1, disconnected |-> {}]

\* no service object has been used yet
ServicesIdle ==
    /\ random_state = <<>>
    /\ clock = 0
    /\ _loops = <<>>
    /\ history = <<>>
    /\ completion_events = <<>>
    /\ pending_events = <<>>
    /\ active_websockets = {}
    /\ _completion_events = <<>>
    /\ _pending_events = <<>>
    /\ _active_websockets = {}
    /\ handler = {}
    /\ task = TaskIdle
    /\ wire = <<>>

----------------------------------------------------------------------------
(* Bounds of the model. *)

\* snap inputs range over -MaxOffRange .. 127 + MaxOffRange
MaxOffRange == 12
\* the longest melody given to an interpolator
MaxLen == 2
\* the largest number of intermediate steps asked of an interpolator
MaxSteps == 2
\* the longest melody given to validate_all
MaxNotes == 2
\* the longest list given to filter_valid_variations
MaxVariations == 3
\* the longest pitch sequence given to _dtw_align
MaxSeq == 3
\* the longest melody given to a MusicTransformer operator
MaxMel == 3
\* find_diatonic_interval is asked for -MaxDegreeSteps .. MaxDegreeSteps scale steps
MaxDegreeSteps == 8
\* the longest melody given to check_cadence
MaxCadenceLen == 4
\* the longest melody given to check_key_membership
MaxKeyLen == 10

----------------------------------------------------------------------------
(* Exact rational arithmetic standing for Python float arithmetic. *)

Abs(x) == IF x < 0 THEN -x ELSE x

RECURSIVE Gcd(_, _)
Gcd(a, b) == IF b = 0 THEN a ELSE Gcd(b, a % b)

\* the rational n/d (d # 0) in lowest terms with a positive denominator
Rat(n, d) ==
    LET g == Gcd(Abs(n), Abs(d))
        s == IF d < 0 THEN -1 ELSE 1
    IN  <<(s * n) \div g, (s * d) \div g>>

RInt(n) == <<n, 1>>
RAdd(x, y) == Rat(x[1] * y[2] + y[1] * x[2], x[2] * y[2])
RSub(x, y) == Rat(x[1] * y[2] - y[1] * x[2], x[2] * y[2])
RMul(x, y) == Rat(x[1] * y[1], x[2] * y[2])
RDiv(x, y) == Rat(x[1] * y[2], x[2] * y[1])
RLt(x, y) == x[1] * y[2] < y[1] * x[2]
RLe(x, y) == x[1] * y[2] <= y[1] * x[2]
RFloor(x) == x[1] \div x[2]
RCeil(x) == -((-x[1]) \div x[2])
\* int(x): truncation toward zero
RTrunc(x) == IF x[1] >= 0 THEN RFloor(x) ELSE RCeil(x)
\* (1 - t) * x + t * y
Lerp(x, y, t) == RAdd(RMul(RSub(RInt(1), t), x), RMul(t, y))

----------------------------------------------------------------------------
(* scale_utils.py *)

ScaleNames ==
    {"major", "minor", "harmonic minor", "melodic minor", "pentatonic",
     "minor pentatonic", "blues", "chromatic", "whole tone", "dorian",
     "phrygian", "lydian", "mixolydian", "aeolian", "locrian",
     "phrygian dominant"}

\* a name that is not a key of standard_scales
UnknownScale == "no such scale"

get_scale_intervals(name) ==
    CASE name = "major" -> <<0, 2, 4, 5, 7, 9, 11>>
      [] name = "minor" -> <<0, 2, 3, 5, 7, 8, 10>>
      [] name = "harmonic minor" -> <<0, 2, 3, 5, 7, 8, 11>>
      [] name = "melodic minor" -> <<0, 2, 3, 5, 7, 9, 11>>
      [] name = "pentatonic" -> <<0, 2, 4, 7, 9>>
      [] name = "minor pentatonic" -> <<0, 3, 5, 7, 10>>
      [] name = "blues" -> <<0, 3, 5, 6, 7, 10>>
      [] name = "chromatic" -> <<0, 1, 2, 3, 4, 5, 6, 7, 8, 9, 10, 11>>
      [] name = "whole tone" -> <<0, 2, 4, 6, 8, 10>>
      [] name = "dorian" -> <<0, 2, 3, 5, 7, 9, 10>>
      [] name = "phrygian" -> <<0, 1, 3, 5, 7, 8, 10>>
      [] name = "lydian" -> <<0, 2, 4, 6, 7, 9, 11>>
      [] name = "mixolydian" -> <<0, 2, 4, 5, 7, 9, 10>>
      [] name = "aeolian" -> <<0, 2, 3, 5, 7, 8, 10>>
      [] name = "locrian" -> <<0, 1, 3, 5, 6, 8, 10>>
      [] name = "phrygian dominant" -> <<0, 1, 4, 5, 7, 8, 10>>
      [] OTHER -> <<0, 2, 4, 5, 7, 9, 11>>

\* music21's pitch.Pitch(name).pitchClass for the note names used as roots
RootNotes == {"C", "C#", "D", "E-", "E", "F", "F#", "G", "A-", "A", "B-", "B"}

pitchClass(name) ==
    CASE name = "C" -> 0   [] name = "C#" -> 1  [] name = "D" -> 2
      [] name = "E-" -> 3  [] name = "E" -> 4   [] name = "F" -> 5
      [] name = "F#" -> 6  [] name = "G" -> 7   [] name = "A-" -> 8
      [] name = "A" -> 9   [] name = "B-" -> 10 [] name = "B" -> 11

\* self.scale_intervals, set by __init__ from self.scale_type
scale_intervals == get_scale_intervals(scale_type)

Range(s) == {s[i] : i \in DOMAIN s}

----------------------------------------------------------------------------
(* Python built-ins on lists *)

\* min(s, key): the first element of s whose key is minimal; keys[k] is
\* the key of s[k]
MinByKey(s, keys) ==
    LET i == CHOOSE k \in DOMAIN s :
                 /\ \A j \in DOMAIN s : keys[k] <= keys[j]
                 /\ \A j \in DOMAIN s : j < k => keys[k] < keys[j]
    IN  s[i]

RECURSIVE Ascending(_)
Ascending(S) ==
    IF S = {} THEN <<>>
    ELSE LET m == CHOOSE x \in S : \A y \in S : x <= y
         IN  <<m>> \o Ascending(S \ {m})

Reverse(s) == [i \in DOMAIN s |-> s[Len(s) + 1 - i]]

\* list(set(xs)): the distinct elements in the set's iteration order, which
\* the language leaves open; both monotone orders are considered
SetOrders == {"ascending", "descending"}

ListOfSet(S) ==
    IF set_order = "ascending" THEN Ascending(S) ELSE Reverse(Ascending(S))

----------------------------------------------------------------------------
(* interpolate.py: MelodyInterpolator._snap_to_scale *)

\* _snap_to_scale with the octave test's comparison turned round
_snap_to_scale_flipped(midi_note) ==
    LET note_class == midi_note % 12
        octave == midi_note \div 12
        scale_degrees == ListOfSet(Range(scale_intervals))
        dist == [k \in DOMAIN scale_degrees |-> Abs(scale_degrees[k] - note_class)]
        closest_degree == MinByKey(scale_degrees, dist)
        result == octave * 12 + closest_degree
    IN  IF Abs(result - midi_note) < 6
        THEN IF result < midi_note THEN result + 12 ELSE result - 12
        ELSE result

_snap_to_scale(midi_note) ==
    LET note_class == midi_note % 12
        octave == midi_note \div 12
        scale_degrees == ListOfSet(Range(scale_intervals))
        dist == [k \in DOMAIN scale_degrees |-> Abs(scale_degrees[k] - note_class)]
        closest_degree == MinByKey(scale_degrees, dist)
        result == octave * 12 + closest_degree
    IN  IF Abs(result - midi_note) > 6
        THEN IF result < midi_note THEN result + 12 ELSE result - 12
        ELSE result

----------------------------------------------------------------------------
(* interpolate.py: MelodyInterpolator, DTW interpolation *)

\* np.inf in the cost matrix: larger than any sum of pitch distances
Inf == 1000000

Min2(x, y) == IF x <= y THEN x ELSE y
Min3(x, y, z) == Min2(x, Min2(y, z))
SetMin(S) == CHOOSE x \in S : \A y \in S : x <= y
SetMax(S) == CHOOSE x \in S : \A y \in S : y <= x

\* the pitch list [n['midi'] for n in melody]
Pitches(melody) == [i \in DOMAIN melody |-> melody[i].midi]

\* cost[i, j] with the distance taken without abs()
RECURSIVE DtwCost_signed(_, _, _, _)
DtwCost_signed(seq_a, seq_b, i, j) ==
    IF i = 0 /\ j = 0 THEN 0
    ELSE IF i = 0 \/ j = 0 THEN Inf
    ELSE LET distance == seq_a[i] - seq_b[j]
             best == Min3(DtwCost_signed(seq_a, seq_b, i - 1, j),
                          DtwCost_signed(seq_a, seq_b, i, j - 1),
                          DtwCost_signed(seq_a, seq_b, i - 1, j - 1))
         IN  IF best = Inf THEN Inf ELSE distance + best

\* cost[i, j] of _dtw_align; seq_a and seq_b are indexed from 1 here
RECURSIVE DtwCost(_, _, _, _)
DtwCost(seq_a, seq_b, i, j) ==
    IF i = 0 /\ j = 0 THEN 0
    ELSE IF i = 0 \/ j = 0 THEN Inf
    ELSE LET distance == Abs(seq_a[i] - seq_b[j])
             best == Min3(DtwCost(seq_a, seq_b, i - 1, j),
                          DtwCost(seq_a, seq_b, i, j - 1),
                          DtwCost(seq_a, seq_b, i - 1, j - 1))
         IN  IF best = Inf THEN Inf ELSE distance + best

\* the order on the candidates with ties on the cost going to the larger
\* index pair
CandidateLe_ties_reversed(c, d) ==
    \/ c[1] < d[1]
    \/ c[1] = d[1] /\ c[2][1] > d[2][1]
    \/ c[1] = d[1] /\ c[2][1] = d[2][1] /\ c[2][2] >= d[2][2]

\* Python's order on the tuples (cost, (i, j))
CandidateLe(c, d) ==
    \/ c[1] < d[1]
    \/ c[1] = d[1] /\ c[2][1] < d[2][1]
    \/ c[1] = d[1] /\ c[2][1] = d[2][1] /\ c[2][2] <= d[2][2]

\* the backtracking loop of _dtw_align from cell (i, j); the pairs come out
\* in the order of the reversed list, each an index pair counted from 0
RECURSIVE DtwBacktrack(_, _, _, _)
DtwBacktrack(seq_a, seq_b, i, j) ==
    IF i > 0 /\ j > 0
    THEN LET candidates ==
                 << <<DtwCost(seq_a, seq_b, i - 1, j - 1), <<i - 1, j - 1>> >>,
                    <<DtwCost(seq_a, seq_b, i - 1, j), <<i - 1, j>> >>,
                    <<DtwCost(seq_a, seq_b, i, j - 1), <<i, j - 1>> >> >>
             k == CHOOSE c \in 1..3 :
                      \A d \in 1..3 : CandidateLe(candidates[c], candidates[d])
             next == candidates[k][2]
         IN  DtwBacktrack(seq_a, seq_b, next[1], next[2]) \o << <<i - 1, j - 1>> >>
    ELSE <<>>

_dtw_align(seq_a, seq_b) == DtwBacktrack(seq_a, seq_b, Len(seq_a), Len(seq_b))

\* t = step / (steps + 1)
Factor(step, steps) == Rat(step, steps + 1)

\* _interpolate_aligned with the two melodies' weights exchanged
_interpolate_aligned_swapped(melody_a, melody_b, alignment, t) ==
    [x \in DOMAIN alignment |->
        LET note_a == melody_a[alignment[x][1] + 1]
            note_b == melody_b[alignment[x][2] + 1]
            pitch == RTrunc(Lerp(RInt(note_b.midi), RInt(note_a.midi), t))
        IN  [midi |-> _snap_to_scale(pitch),
             time |-> Lerp(note_a.time, note_b.time, t),
             duration |-> Lerp(note_a.duration, note_b.duration, t),
             velocity |-> Lerp(note_a.velocity, note_b.velocity, t)]]

_interpolate_aligned(melody_a, melody_b, alignment, t) ==
    [x \in DOMAIN alignment |->
        LET note_a == melody_a[alignment[x][1] + 1]
            note_b == melody_b[alignment[x][2] + 1]
            pitch == RTrunc(Lerp(RInt(note_a.midi), RInt(note_b.midi), t))
        IN  [midi |-> _snap_to_scale(pitch),
             time |-> Lerp(note_a.time, note_b.time, t),
             duration |-> Lerp(note_a.duration, note_b.duration, t),
             velocity |-> Lerp(note_a.velocity, note_b.velocity, t)]]

Ok(v) == [raised |-> FALSE, value |-> v]
Raised(e) == [raised |-> TRUE, value |-> e]

dtw_interpolate(melody_a, melody_b, steps) ==
    IF melody_a = <<>> \/ melody_b = <<>> THEN Ok(<<>>)
    ELSE LET alignment == _dtw_align(Pitches(melody_a), Pitches(melody_b))
             middle == [step \in 1..steps |->
                          _interpolate_aligned(melody_a, melody_b, alignment,
                                               Factor(step, steps))]
         IN  Ok(<<melody_a>> \o middle \o <<melody_b>>)

----------------------------------------------------------------------------
(* interpolate.py: MelodyInterpolator, contour interpolation *)

_normalize_contour(pitches) ==
    IF pitches = <<>> THEN <<>>
    ELSE LET min_pitch == SetMin(Range(pitches))
             max_pitch == SetMax(Range(pitches))
         IN  IF max_pitch = min_pitch
             THEN [i \in DOMAIN pitches |-> Rat(1, 2)]
             ELSE [i \in DOMAIN pitches |->
                      Rat(pitches[i] - min_pitch, max_pitch - min_pitch)]

\* np.linspace(0, stop, num): num evenly spaced positions from 0 to stop
Linspace(stop, num) ==
    [i \in 1..num |-> IF num = 1 THEN RInt(0) ELSE Rat((i - 1) * stop, num - 1)]

_resample_contour(contour, target_length) ==
    IF Len(contour) = target_length THEN contour
    ELSE IF Len(contour) = 0 THEN [i \in 1..target_length |-> Rat(1, 2)]
    ELSE LET indices == Linspace(Len(contour) - 1, target_length)
         IN  [i \in 1..target_length |->
                 LET idx == indices[i]
                     low == RFloor(idx)
                     high == Min2(RCeil(idx), Len(contour) - 1)
                     frac == RSub(idx, RInt(low))
                 IN  IF low = high THEN contour[low + 1]
                     ELSE Lerp(contour[low + 1], contour[high + 1], frac)]

_contour_to_melody(contour, melody_a, melody_b, t) ==
    LET range_a == <<SetMin(Range(Pitches(melody_a))), SetMax(Range(Pitches(melody_a)))>>
        range_b == <<SetMin(Range(Pitches(melody_b))), SetMax(Range(Pitches(melody_b)))>>
        min_pitch == RTrunc(Lerp(RInt(range_a[1]), RInt(range_b[1]), t))
        max_pitch == RTrunc(Lerp(RInt(range_a[2]), RInt(range_b[2]), t))
    IN  [x \in DOMAIN contour |->
            LET i == x - 1
                pitch == RTrunc(RAdd(RInt(min_pitch),
                                     RMul(contour[x], RInt(max_pitch - min_pitch))))
                note_a == melody_a[Min2(i, Len(melody_a) - 1) + 1]
                note_b == melody_b[Min2(i, Len(melody_b) - 1) + 1]
            IN  [midi |-> _snap_to_scale(pitch),
                 time |-> Lerp(note_a.time, note_b.time, t),
                 duration |-> Lerp(note_a.duration, note_b.duration, t),
                 velocity |-> Rat(7, 10)]]

contour_interpolate(melody_a, melody_b, steps) ==
    IF melody_a = <<>> \/ melody_b = <<>> THEN Ok(<<>>)
    ELSE LET raw_a == _normalize_contour(Pitches(melody_a))
             raw_b == _normalize_contour(Pitches(melody_b))
             max_len == IF Len(raw_a) >= Len(raw_b) THEN Len(raw_a) ELSE Len(raw_b)
             contour_a == _resample_contour(raw_a, max_len)
             contour_b == _resample_contour(raw_b, max_len)
             middle == [step \in 1..steps |->
                          LET t == Factor(step, steps)
                              interp_contour ==
                                  [i \in 1..max_len |-> Lerp(contour_a[i], contour_b[i], t)]
                          IN  _contour_to_melody(interp_contour, melody_a, melody_b, t)]
         IN  Ok(<<melody_a>> \o middle \o <<melody_b>>)

----------------------------------------------------------------------------
(* interpolate.py: MelodyInterpolator, feature interpolation *)

RECURSIVE SumSeq(_)
SumSeq(s) == IF s = <<>> THEN 0 ELSE s[1] + SumSeq(Tail(s))

_extract_features(melody) ==
    LET pitches == Pitches(melody)
        n == Len(melody)
        total == SumSeq(pitches)
        squares == SumSeq([i \in DOMAIN pitches |-> pitches[i] * pitches[i]])
        total_duration == RSub(RAdd(melody[n].time, melody[n].duration), melody[1].time)
        intervals == [i \in 1..(n - 1) |-> Abs(pitches[i + 1] - pitches[i])]
        steps == Cardinality({i \in DOMAIN intervals : intervals[i] <= 2})
    IN  [mean_pitch |-> Rat(total, n),
         \* np.var: the mean of the squared deviations from the mean
         pitch_variance |-> Rat(n * squares - total * total, n * n),
         rhythm_density |-> IF RLt(RInt(0), total_duration)
                            THEN RDiv(RInt(n), total_duration)
                            ELSE RInt(0),
         step_ratio |-> IF intervals # <<>> THEN Rat(steps, Len(intervals))
                        ELSE Rat(1, 2)]

\* the blended length of the synthesized melody
SynthLength(melody_a, melody_b, t) ==
    RTrunc(Lerp(RInt(Len(melody_a)), RInt(Len(melody_b)), t))

_synthesize_from_features(target_features, melody_a, melody_b, t) ==
    LET length == SynthLength(melody_a, melody_b, t)
    IN  \* i / target_features['rhythm_density'] divides by zero at the first note
        IF length >= 1 /\ target_features.rhythm_density = RInt(0)
        THEN Raised("ZeroDivisionError")
        ELSE Ok([x \in 1..length |->
                 LET i == x - 1
                     idx_a == Min2(RTrunc(Rat(i * Len(melody_a), length)), Len(melody_a) - 1)
                     idx_b == Min2(RTrunc(Rat(i * Len(melody_b), length)), Len(melody_b) - 1)
                     blend == RTrunc(Lerp(RInt(melody_a[idx_a + 1].midi),
                                          RInt(melody_b[idx_b + 1].midi), t))
                     current_mean == target_features.mean_pitch
                     pitch == RTrunc(RAdd(RInt(blend),
                                          RMul(RSub(current_mean, RInt(blend)), Rat(3, 10))))
                 IN  [midi |-> _snap_to_scale(pitch),
                      time |-> RDiv(RInt(i), target_features.rhythm_density),
                      duration |-> Rat(1, 2),
                      velocity |-> Rat(7, 10)]])

feature_interpolate(melody_a, melody_b, steps) ==
    IF melody_a = <<>> \/ melody_b = <<>> THEN Ok(<<>>)
    ELSE LET features_a == _extract_features(melody_a)
             features_b == _extract_features(melody_b)
             Target(t) ==
                 [mean_pitch |-> Lerp(features_a.mean_pitch, features_b.mean_pitch, t),
                  pitch_variance |-> Lerp(features_a.pitch_variance, features_b.pitch_variance, t),
                  rhythm_density |-> Lerp(features_a.rhythm_density, features_b.rhythm_density, t),
                  step_ratio |-> Lerp(features_a.step_ratio, features_b.step_ratio, t)]
             middle == [step \in 1..steps |->
                          LET t == Factor(step, steps)
                          IN  _synthesize_from_features(Target(t), melody_a, melody_b, t)]
         IN  IF \E step \in 1..steps : middle[step].raised
             THEN Raised("ZeroDivisionError")
             ELSE Ok(<<melody_a>> \o [step \in 1..steps |-> middle[step].value]
                     \o <<melody_b>>)

----------------------------------------------------------------------------
(* constraints.py: MelodyValidator *)

\* round(x, ndigits) for ndigits = decimals with 10^decimals = scale
RRound(x, scale) ==
    LET y == RMul(x, RInt(scale))
        low == RFloor(y)
        twice == RSub(RMul(y, RInt(2)), RInt(2 * low))  \* 2 * (y - low)
        n == IF RLt(twice, RInt(1)) THEN low
             ELSE IF RLt(RInt(1), twice) THEN low + 1
             ELSE IF low % 2 = 0 THEN low ELSE low + 1
    IN  Rat(n, scale)

EmptyMelodyResult == [passed |-> FALSE, message |-> "Empty melody"]

\* the non_scale_notes list from note number i on (notes are numbered from 1
\* here, the recorded index is the source's, from 0)
RECURSIVE NonScaleFrom(_, _)
NonScaleFrom(melody_notes, i) ==
    IF i > Len(melody_notes) THEN <<>>
    ELSE LET midi == melody_notes[i].midi
             note_pc == midi % 12
             interval == (note_pc - pitchClass(root_note)) % 12
         IN  (IF interval \notin Range(scale_intervals)
              THEN <<[index |-> i - 1, midi |-> midi, interval_from_root |-> interval]>>
              ELSE <<>>) \o NonScaleFrom(melody_notes, i + 1)

\* check_key_membership passing above 90% only
check_key_membership_strict(melody_notes) ==
    IF melody_notes = <<>> THEN EmptyMelodyResult
    ELSE LET non_scale_notes == NonScaleFrom(melody_notes, 1)
             in_scale_count == Len(melody_notes) - Len(non_scale_notes)
             percentage == RMul(Rat(in_scale_count, Len(melody_notes)), RInt(100))
         IN  [passed |-> RLt(RInt(90), percentage),
              in_scale_percentage |-> RRound(percentage, 100),
              in_scale_count |-> in_scale_count,
              total_notes |-> Len(melody_notes),
              non_scale_notes |-> SubSeq(non_scale_notes, 1, Min2(5, Len(non_scale_notes)))]

check_key_membership(melody_notes) ==
    IF melody_notes = <<>> THEN EmptyMelodyResult
    ELSE LET non_scale_notes == NonScaleFrom(melody_notes, 1)
             in_scale_count == Len(melody_notes) - Len(non_scale_notes)
             percentage == RMul(Rat(in_scale_count, Len(melody_notes)), RInt(100))
         IN  [passed |-> RLe(RInt(90), percentage),
              in_scale_percentage |-> RRound(percentage, 100),
              in_scale_count |-> in_scale_count,
              total_notes |-> Len(melody_notes),
              non_scale_notes |-> SubSeq(non_scale_notes, 1, Min2(5, Len(non_scale_notes)))]

_get_scale_degree(midi_note) ==
    LET note_pc == midi_note % 12
        interval == (note_pc - pitchClass(root_note)) % 12
        dist == [k \in DOMAIN scale_intervals |-> Abs(scale_intervals[k] - interval)]
        IndexOf(x) == CHOOSE i \in DOMAIN scale_intervals :
                          /\ scale_intervals[i] = x
                          /\ \A j \in DOMAIN scale_intervals :
                                 scale_intervals[j] = x => i <= j
    IN  IF interval \in Range(scale_intervals)
        THEN ((IndexOf(interval) - 1) % 7) + 1
        ELSE ((IndexOf(MinByKey(scale_intervals, dist)) - 1) % 7) + 1

\* check_cadence reading the first two of the cadence notes, not the last two
check_cadence_first_two(melody_notes) ==
    IF Len(melody_notes) < 2
    THEN [passed |-> FALSE, message |-> "Melody too short for cadence"]
    ELSE LET n == Len(melody_notes)
             cadence_notes == IF n >= 4 THEN SubSeq(melody_notes, n - 3, n)
                              ELSE SubSeq(melody_notes, n - 1, n)
             scale_degrees == [i \in DOMAIN cadence_notes |->
                                  _get_scale_degree(cadence_notes[i].midi)]
             last_two == SubSeq(scale_degrees, 1, 2)
             valid_cadences ==
                 << <<<<7, 1>>, "Leading tone to tonic">>,
                    <<<<2, 1>>, "Supertonic to tonic">>,
                    <<<<5, 1>>, "Dominant to tonic">>,
                    <<<<4, 1>>, "Subdominant to tonic">>,
                    <<<<1, 1>>, "Tonic to tonic">> >>
             matches == {i \in DOMAIN valid_cadences : valid_cadences[i][1] = last_two}
         IN  IF matches # {}
             THEN [passed |-> TRUE,
                   cadence_type |-> valid_cadences[SetMin(matches)][2],
                   scale_degrees |-> scale_degrees]
             ELSE IF last_two[2] = 1
             THEN [passed |-> TRUE,
                   cadence_type |-> "Ends on tonic",
                   scale_degrees |-> scale_degrees]
             ELSE [passed |-> FALSE,
                   cadence_type |-> "No valid cadence",
                   scale_degrees |-> scale_degrees,
                   last_interval |-> last_two]

check_cadence(melody_notes) ==
    IF Len(melody_notes) < 2
    THEN [passed |-> FALSE, message |-> "Melody too short for cadence"]
    ELSE LET n == Len(melody_notes)
             cadence_notes == IF n >= 4 THEN SubSeq(melody_notes, n - 3, n)
                              ELSE SubSeq(melody_notes, n - 1, n)
             scale_degrees == [i \in DOMAIN cadence_notes |->
                                  _get_scale_degree(cadence_notes[i].midi)]
             last_two == SubSeq(scale_degrees, Len(scale_degrees) - 1, Len(scale_degrees))
             valid_cadences ==
                 << <<<<7, 1>>, "Leading tone to tonic">>,
                    <<<<2, 1>>, "Supertonic to tonic">>,
                    <<<<5, 1>>, "Dominant to tonic">>,
                    <<<<4, 1>>, "Subdominant to tonic">>,
                    <<<<1, 1>>, "Tonic to tonic">> >>
             matches == {i \in DOMAIN valid_cadences : valid_cadences[i][1] = last_two}
         IN  IF matches # {}
             THEN [passed |-> TRUE,
                   cadence_type |-> valid_cadences[SetMin(matches)][2],
                   scale_degrees |-> scale_degrees]
             ELSE IF last_two[2] = 1
             THEN [passed |-> TRUE,
                   cadence_type |-> "Ends on tonic",
                   scale_degrees |-> scale_degrees]
             ELSE [passed |-> FALSE,
                   cadence_type |-> "No valid cadence",
                   scale_degrees |-> scale_degrees,
                   last_interval |-> last_two]

\* reference_range is <<>> for None, else <<min_midi, max_midi>>
check_range(melody_notes, reference_range) ==
    IF melody_notes = <<>> THEN EmptyMelodyResult
    ELSE LET pitches == Pitches(melody_notes)
             min_pitch == SetMin(Range(pitches))
             max_pitch == SetMax(Range(pitches))
             min_allowed == IF reference_range # <<>> THEN reference_range[1] ELSE 48
             max_allowed == IF reference_range # <<>> THEN reference_range[2] ELSE 84
         IN  [passed |-> min_pitch >= min_allowed /\ max_pitch <= max_allowed,
              melody_range |-> [lowest |-> min_pitch, highest |-> max_pitch,
                                span |-> max_pitch - min_pitch],
              reference_range |-> [lowest |-> min_allowed, highest |-> max_allowed],
              violations |-> [below_minimum |-> min_pitch < min_allowed,
                              above_maximum |-> max_pitch > max_allowed]]

RECURSIVE RSumSeq(_)
RSumSeq(s) == IF s = <<>> THEN RInt(0) ELSE RAdd(s[1], RSumSeq(Tail(s)))

check_rhythm_coherence(melody_notes) ==
    IF melody_notes = <<>> THEN EmptyMelodyResult
    ELSE LET n == Len(melody_notes)
             start_time == melody_notes[1].time
             end_time == RAdd(melody_notes[n].time, melody_notes[n].duration)
             total_time == RSub(end_time, start_time)
             sounding_time == RSumSeq([i \in DOMAIN melody_notes |-> melody_notes[i].duration])
             rest_time == RSub(total_time, sounding_time)
             rest_density == IF RLt(RInt(0), total_time) THEN RDiv(rest_time, total_time)
                             ELSE RInt(0)
             very_short_notes == {i \in DOMAIN melody_notes :
                                     RLt(melody_notes[i].duration, Rat(1, 10))}
             short_note_ratio == Rat(Cardinality(very_short_notes), n)
             rest_ok == RLe(rest_density, Rat(1, 2))
             short_notes_ok == RLe(short_note_ratio, Rat(3, 10))
         IN  [passed |-> rest_ok /\ short_notes_ok,
              rest_density |-> RRound(rest_density, 1000),
              short_note_ratio |-> RRound(short_note_ratio, 1000),
              total_notes |-> n,
              very_short_notes_count |-> Cardinality(very_short_notes),
              checks |-> [rest_density_ok |-> rest_ok, short_notes_ok |-> short_notes_ok]]

\* the checks validate_all runs on a non-empty melody; the three toggles are
\* the parameters check_key, check_cadence and check_range of the source,
\* and results['checks'] is a function on check names
RunChecks(melody_notes, do_key, do_cadence, do_range, reference_range) ==
    LET names == (IF do_key THEN {"key_membership"} ELSE {})
                 \cup (IF do_cadence THEN {"cadence"} ELSE {})
                 \cup (IF do_range THEN {"range"} ELSE {})
                 \cup {"rhythm_coherence"}
    IN  [c \in names |->
           CASE c = "key_membership" -> check_key_membership(melody_notes)
             [] c = "cadence" -> check_cadence(melody_notes)
             [] c = "range" -> check_range(melody_notes, reference_range)
             [] c = "rhythm_coherence" -> check_rhythm_coherence(melody_notes)]

\* validate_all with any() where the source has all()
validate_all_any(melody_notes, do_key, do_cadence, do_range, reference_range) ==
    IF melody_notes = <<>>
    THEN [passed |-> FALSE,
          checks |-> [c \in {"empty_melody"} |-> EmptyMelodyResult]]
    ELSE LET checks == RunChecks(melody_notes, do_key, do_cadence, do_range, reference_range)
         IN  [passed |-> \E c \in DOMAIN checks : checks[c].passed,
              checks |-> checks]

\* validate_all without the early return on an empty melody
validate_all_unguarded(melody_notes, do_key, do_cadence, do_range, reference_range) ==
    LET checks == RunChecks(melody_notes, do_key, do_cadence, do_range, reference_range)
    IN  [passed |-> \A c \in DOMAIN checks : checks[c].passed,
         checks |-> checks]

validate_all(melody_notes, do_key, do_cadence, do_range, reference_range) ==
    IF melody_notes = <<>>
    THEN [passed |-> FALSE,
          checks |-> [c \in {"empty_melody"} |-> EmptyMelodyResult]]
    ELSE LET checks == RunChecks(melody_notes, do_key, do_cadence, do_range, reference_range)
         IN  [passed |-> \A c \in DOMAIN checks : checks[c].passed,
              checks |-> checks]

\* The variation objects are addressed by their index in the caller's list;
\* an absent 'validation' key is <<>>, a present one <<report>>.  The loop
\* state is the objects as mutated so far and the list valid, which holds
\* references to (indices of) those objects.
\* the loop body passing no reference range on to validate_all
FilterStep_default_range(state, i, reference_range) ==
    LET variation == state.objects[i]
        notes == variation.notes
        validation == validate_all(notes, TRUE, TRUE, TRUE, <<>>)
    IN  IF validation.passed
        THEN [objects |-> [state.objects EXCEPT ![i].validation = <<validation>>],
              valid |-> Append(state.valid, i)]
        ELSE state

\* the loop body attaching the report before testing it
FilterStep_tag_first(state, i, reference_range) ==
    LET variation == state.objects[i]
        notes == variation.notes
        validation == validate_all(notes, TRUE, TRUE, TRUE, reference_range)
        tagged == [state.objects EXCEPT ![i].validation = <<validation>>]
    IN  IF validation.passed
        THEN [objects |-> tagged, valid |-> Append(state.valid, i)]
        ELSE [objects |-> tagged, valid |-> state.valid]

FilterStep(state, i, reference_range) ==
    LET variation == state.objects[i]
        notes == variation.notes
        validation == validate_all(notes, TRUE, TRUE, TRUE, reference_range)
    IN  IF validation.passed
        THEN [objects |-> [state.objects EXCEPT ![i].validation = <<validation>>],
              valid |-> Append(state.valid, i)]
        ELSE state

RECURSIVE FilterLoop(_, _, _)
FilterLoop(state, i, reference_range) ==
    IF i > Len(state.objects) THEN state
    ELSE FilterLoop(FilterStep(state, i, reference_range), i + 1, reference_range)

filter_valid_variations(vs, reference_range) ==
    FilterLoop([objects |-> vs, valid |-> <<>>], 1, reference_range)

----------------------------------------------------------------------------
(* The snap specification: the interpolator's scale snapping on its own. *)

SnapInputs == (-MaxOffRange) .. (127 + MaxOffRange)

NoVariations == <<>>
NoArgs == <<>>
NoResult == [raised |-> FALSE, value |-> 0]

\* the caller is done with the result of a call; the objects keep no trace of it
Return ==
    /\ op # "idle"
    /\ op' = "idle"
    /\ args' = NoArgs
    /\ ret' = NoResult
    /\ UNCHANGED <<scale_type, root_note, set_order, variations, services>>

InitSnap ==
    /\ scale_type \in ScaleNames \cup {UnknownScale}
    /\ root_note = "C"
    /\ set_order \in SetOrders
    /\ op = "idle"
    /\ args = NoArgs
    /\ ret = NoResult
    /\ ServicesIdle
    /\ variations = NoVariations

\* a call of _snap_to_scale on an arbitrary pitch
SnapToScale ==
    /\ op = "idle"
    /\ \E p \in SnapInputs :
          /\ args' = [midi_note |-> p, from_snap |-> FALSE, origin |-> p]
          /\ ret' = [raised |-> FALSE, value |-> _snap_to_scale(p)]
    /\ op' = "_snap_to_scale"
    /\ UNCHANGED <<scale_type, root_note, set_order, variations, services>>

\* a call of _snap_to_scale on the pitch the previous call returned
SnapAgain ==
    /\ op = "_snap_to_scale"
    /\ ~args.from_snap
    /\ args' = [midi_note |-> ret.value, from_snap |-> TRUE, origin |-> args.midi_note]
    /\ ret' = [raised |-> FALSE, value |-> _snap_to_scale(ret.value)]
    /\ op' = "_snap_to_scale"
    /\ UNCHANGED <<scale_type, root_note, set_order, variations, services>>

NextSnap == SnapToScale \/ SnapAgain \/ Return

SpecSnap == InitSnap /\ [][NextSnap]_vars

----------------------------------------------------------------------------
(* The interpolation specification: the three interpolators of one         *)
(* MelodyInterpolator, called on onset-ordered melodies.                   *)

NoteA == [midi |-> 60, time |-> RInt(0), duration |-> Rat(1, 2), velocity |-> Rat(7, 10)]
NoteB == [midi |-> 72, time |-> Rat(1, 2), duration |-> Rat(1, 2), velocity |-> Rat(1, 2)]
\* a note of duration 0
NoteZ == [midi |-> 61, time |-> RInt(0), duration |-> RInt(0), velocity |-> RInt(1)]

InterpNotes == {NoteA, NoteB, NoteZ}

OnsetOrdered(melody) ==
    \A i \in 1..(Len(melody) - 1) : RLe(melody[i].time, melody[i + 1].time)

InterpMelodies ==
    {m \in UNION {[1..n -> InterpNotes] : n \in 0..MaxLen} : OnsetOrdered(m)}

InterpScales == {"major", "pentatonic"}
InterpRoots == {"C", "D"}

InitInterp ==
    /\ scale_type \in InterpScales
    /\ root_note \in InterpRoots
    /\ set_order \in SetOrders
    /\ op = "idle"
    /\ args = NoArgs
    /\ ret = NoResult
    /\ ServicesIdle
    /\ variations = NoVariations

DtwInterpolate ==
    /\ op = "idle"
    /\ \E a \in InterpMelodies, b \in InterpMelodies, n \in 0..MaxSteps :
          /\ args' = [melody_a |-> a, melody_b |-> b, steps |-> n]
          /\ ret' = dtw_interpolate(a, b, n)
    /\ op' = "dtw_interpolate"
    /\ UNCHANGED <<scale_type, root_note, set_order, variations, services>>

ContourInterpolate ==
    /\ op = "idle"
    /\ \E a \in InterpMelodies, b \in InterpMelodies, n \in 0..MaxSteps :
          /\ args' = [melody_a |-> a, melody_b |-> b, steps |-> n]
          /\ ret' = contour_interpolate(a, b, n)
    /\ op' = "contour_interpolate"
    /\ UNCHANGED <<scale_type, root_note, set_order, variations, services>>

FeatureInterpolate ==
    /\ op = "idle"
    /\ \E a \in InterpMelodies, b \in InterpMelodies, n \in 0..MaxSteps :
          /\ args' = [melody_a |-> a, melody_b |-> b, steps |-> n]
          /\ ret' = feature_interpolate(a, b, n)
    /\ op' = "feature_interpolate"
    /\ UNCHANGED <<scale_type, root_note, set_order, variations, services>>

NextInterp == DtwInterpolate \/ ContourInterpolate \/ FeatureInterpolate \/ Return

SpecInterp == InitInterp /\ [][NextInterp]_vars

----------------------------------------------------------------------------
(* The validation specification: validate_all of one MelodyValidator.      *)

\* onset and duration of the notes given to the validator
Slots == {<<RInt(0), Rat(1, 2)>>, <<Rat(1, 2), Rat(1, 2)>>, <<RInt(2), Rat(1, 20)>>}
ValidatorPitches == {59, 60, 61, 91}

Note(midi, slot) ==
    [midi |-> midi, time |-> slot[1], duration |-> slot[2], velocity |-> Rat(7, 10)]

ValidatorNotes == {Note(p, s) : p \in ValidatorPitches, s \in Slots}

ValidatorMelodies ==
    {m \in UNION {[1..n -> ValidatorNotes] : n \in 0..MaxNotes} : OnsetOrdered(m)}

\* None, or a (min_midi, max_midi) pair
ReferenceRanges == {<<>>, <<60, 96>>}

ValidatorScales == {"major", "pentatonic"}
ValidatorRoots == {"C", "G"}

InitValidate ==
    /\ scale_type \in ValidatorScales
    /\ root_note \in ValidatorRoots
    /\ set_order = "ascending"
    /\ op = "idle"
    /\ args = NoArgs
    /\ ret = NoResult
    /\ ServicesIdle
    /\ variations = NoVariations

ValidateAll ==
    /\ op = "idle"
    /\ \E m \in ValidatorMelodies, k \in BOOLEAN, c \in BOOLEAN, r \in BOOLEAN,
          ref \in ReferenceRanges :
          /\ args' = [melody_notes |-> m, check_key |-> k, check_cadence |-> c,
                      check_range |-> r, reference_range |-> ref]
          /\ ret' = Ok(validate_all(m, k, c, r, ref))
    /\ op' = "validate_all"
    /\ UNCHANGED <<scale_type, root_note, set_order, variations, services>>

NextValidate == ValidateAll \/ Return

SpecValidate == InitValidate /\ [][NextValidate]_vars

----------------------------------------------------------------------------
(* The filter specification: filter_valid_variations on a caller's list of *)
(* variation objects.                                                      *)

Slot1 == <<RInt(0), Rat(1, 2)>>
Slot2 == <<Rat(1, 2), Rat(1, 2)>>
Slot3 == <<RInt(2), Rat(1, 20)>>

\* the note lists the variations hold: in C major the first passes with the
\* default range only, the second with the reference range only, the third
\* is out of key, the fourth is empty and the fifth is mostly silence
VariationNotes ==
    { <<Note(59, Slot1), Note(60, Slot2)>>,
      <<Note(91, Slot1), Note(60, Slot2)>>,
      <<Note(60, Slot1), Note(61, Slot2)>>,
      <<>>,
      <<Note(60, Slot1), Note(60, Slot3)>> }

Variation(i, notes) ==
    [id |-> i,
     notes |-> notes,
     metadata |-> [method |-> "Transpose (random)", variation_type |-> "transpose",
                   seed_length |-> 2, output_length |-> Len(notes),
                   scale |-> scale_type, key |-> root_note],
     validation |-> <<>>]

InitFilter ==
    /\ scale_type \in ValidatorScales
    /\ root_note \in ValidatorRoots
    /\ set_order = "ascending"
    /\ op = "idle"
    /\ args = NoArgs
    /\ ret = NoResult
    /\ ServicesIdle
    /\ \E n \in 0..MaxVariations :
          \E ns \in [1..n -> VariationNotes] :
             variations = [i \in 1..n |-> Variation(i, ns[i])]

FilterValidVariations ==
    /\ op = "idle"
    /\ \E ref \in ReferenceRanges :
          LET result == filter_valid_variations(variations, ref)
          IN  /\ args' = [variations |-> variations, reference_range |-> ref]
              /\ variations' = result.objects
              /\ ret' = Ok(result.valid)
    /\ op' = "filter_valid_variations"
    /\ UNCHANGED <<scale_type, root_note, set_order, services>>

NextFilter == FilterValidVariations \/ Return

SpecFilter == InitFilter /\ [][NextFilter]_vars

----------------------------------------------------------------------------
(* Properties of validate_all (specification SpecValidate)                 *)

\* C1: for a non-empty melody, validate_all returns a checks map that holds
\* rhythm_coherence always and key_membership, cadence and range exactly
\* when the corresponding toggle is on, and passed is true if and only if
\* every check in the map passed.
C1_ValidateAllChecks ==
    (op = "validate_all" /\ args.melody_notes # <<>>) =>
        LET checks == ret.value.checks
        IN  /\ ~ret.raised
            /\ "rhythm_coherence" \in DOMAIN checks
            /\ ("key_membership" \in DOMAIN checks) <=> args.check_key
            /\ ("cadence" \in DOMAIN checks) <=> args.check_cadence
            /\ ("range" \in DOMAIN checks) <=> args.check_range
            /\ ret.value.passed <=> (\A c \in DOMAIN checks : checks[c].passed)

\* a melody that is out of range passes once the range check is switched off
C1_Witness ==
    /\ op = "validate_all"
    /\ args.melody_notes # <<>>
    /\ args.check_key /\ args.check_cadence /\ ~args.check_range
    /\ ~check_range(args.melody_notes, args.reference_range).passed
    /\ ret.value.passed
    /\ DOMAIN ret.value.checks = {"key_membership", "cadence", "rhythm_coherence"}

\* C2: validate_all on an empty melody does not raise and returns passed =
\* false with exactly one check, empty_melody, that has not passed, whatever
\* the toggles and the reference range.
C2_EmptyMelody ==
    (op = "validate_all" /\ args.melody_notes = <<>>) =>
        /\ ~ret.raised
        /\ ret.value.passed = FALSE
        /\ DOMAIN ret.value.checks = {"empty_melody"}
        /\ ret.value.checks["empty_melody"].passed = FALSE

C2_Witness ==
    /\ op = "validate_all"
    /\ args.melody_notes = <<>>
    /\ args.check_key /\ ~args.check_cadence /\ args.check_range
    /\ args.reference_range # <<>>
    /\ ~ret.value.passed

----------------------------------------------------------------------------
(* Properties of filter_valid_variations (specification SpecFilter)        *)

\* C3: filter_valid_variations returns exactly the input variations whose
\* notes pass validate_all with every check on and the given reference
\* range, in input order, none twice and none left out, and every returned
\* variation carries a validation report that passed.
C3_FilterExact ==
    op = "filter_valid_variations" =>
        LET before == args.variations
            kept == ret.value
            Passes(i) == validate_all(before[i].notes, TRUE, TRUE, TRUE,
                                      args.reference_range).passed
        IN  /\ ~ret.raised
            /\ \A j \in DOMAIN kept : kept[j] \in DOMAIN before
            /\ \A j, k \in DOMAIN kept : j < k => kept[j] < kept[k]
            /\ {kept[j] : j \in DOMAIN kept} = {i \in DOMAIN before : Passes(i)}
            /\ \A j \in DOMAIN kept :
                  /\ Len(variations[kept[j]].validation) = 1
                  /\ variations[kept[j]].validation[1].passed

\* with a reference range given, some variations are kept and some rejected
C3_Witness ==
    /\ op = "filter_valid_variations"
    /\ args.reference_range # <<>>
    /\ Len(ret.value) >= 1
    /\ Len(ret.value) < Len(args.variations)
    /\ \E i \in DOMAIN variations :
          /\ i \notin Range(ret.value)
          /\ validate_all(variations[i].notes, TRUE, TRUE, TRUE, <<>>).passed

\* C4: filter_valid_variations never changes the notes, id or metadata of a
\* variation it is given; a kept variation differs from before only in its
\* validation field and a rejected one is left entirely unchanged.
C4_FilterFrame ==
    op = "filter_valid_variations" =>
        LET before == args.variations
        IN  /\ Len(variations) = Len(before)
            /\ \A i \in DOMAIN before :
                  /\ variations[i].notes = before[i].notes
                  /\ variations[i].id = before[i].id
                  /\ variations[i].metadata = before[i].metadata
                  /\ i \notin Range(ret.value) => variations[i] = before[i]
                  /\ i \in Range(ret.value) =>
                        [variations[i] EXCEPT !.validation = before[i].validation]
                            = before[i]

\* a call that keeps one variation and rejects another with notes
C4_Witness ==
    /\ op = "filter_valid_variations"
    /\ \E i, j \in DOMAIN variations :
          /\ i \in Range(ret.value)
          /\ variations[i] # args.variations[i]
          /\ j \notin Range(ret.value)
          /\ variations[j].notes # <<>>
          /\ variations[j].validation = <<>>

----------------------------------------------------------------------------
(* Properties of the interpolators (specification SpecInterp)              *)

InterpOps == {"dtw_interpolate", "contour_interpolate", "feature_interpolate"}

\* C5: each of the three interpolators, called with non-empty melodies A
\* and B and steps >= 0, returns a list of exactly steps + 2 melodies whose
\* first element is A and whose last element is B, both unchanged.
C5_EndpointsAndLength ==
    (op \in InterpOps /\ args.melody_a # <<>> /\ args.melody_b # <<>>) =>
        /\ ~ret.raised
        /\ Len(ret.value) = args.steps + 2
        /\ ret.value[1] = args.melody_a
        /\ ret.value[Len(ret.value)] = args.melody_b

\* C6: none of the three interpolators raises on edge inputs: with A or B
\* empty the result is the empty list, and with A or B a single note of any
\* duration >= 0 the call completes with a result for every steps >= 0.
C6_NoRaiseOnEdgeInputs ==
    op \in InterpOps =>
        /\ (args.melody_a = <<>> \/ args.melody_b = <<>>) =>
              (~ret.raised /\ ret.value = <<>>)
        /\ (Len(args.melody_a) = 1 \/ Len(args.melody_b) = 1) => ~ret.raised

\* the melodies an interpolator synthesized, the two given ones left out
Intermediates ==
    IF ret.raised \/ Len(ret.value) < 2 THEN {}
    ELSE {ret.value[k] : k \in 2..(Len(ret.value) - 1)}

\* C7: every pitch of every synthesized intermediate melody belongs to the
\* active scale, (pitch - rootPitchClass) mod 12 being one of the scale's
\* offsets, so that the melody scores 100% in the key-membership check of a
\* validator with the same scale and root.
C7_IntermediatesInScale ==
    op \in InterpOps =>
        \A m \in Intermediates :
            /\ \A i \in DOMAIN m :
                  ((m[i].midi - pitchClass(root_note)) % 12) \in Range(scale_intervals)
            /\ m # <<>> => check_key_membership(m).in_scale_percentage = RInt(100)

\* the integers nearest to the rational x (two of them at a half)
Nearest(x) ==
    LET low == RFloor(x)
        high == RCeil(x)
        below == RSub(x, RInt(low))
        above == RSub(RInt(high), x)
    IN  {n \in {low, high} : IF n = low THEN RLe(below, above) ELSE RLe(above, below)}

\* the exact blend (1 - t) * a[i].pitch + t * b[j].pitch of aligned pair x
\* at step k of the recorded dtw_interpolate call
DtwAlignment == _dtw_align(Pitches(args.melody_a), Pitches(args.melody_b))
DtwBlend(k, x) ==
    Lerp(RInt(args.melody_a[DtwAlignment[x][1] + 1].midi),
         RInt(args.melody_b[DtwAlignment[x][2] + 1].midi),
         Rat(k, args.steps + 1))

\* the example of the claim: A = [60], B = [72], steps = 1
DtwExample ==
    (Pitches(args.melody_a) = <<60>> /\ Pitches(args.melody_b) = <<72>> /\ args.steps = 1) =>
        /\ Len(ret.value) = 3
        /\ Pitches(ret.value[2]) = <<_snap_to_scale(66)>>

\* C10 as stated: the pitch of each intermediate note of DTW interpolation
\* is snapToScale of the linear blend rounded to the nearest integer, and
\* the example gives 3 melodies with the middle pitch snapToScale(66).
C10_BlendRounded ==
    (op = "dtw_interpolate" /\ args.melody_a # <<>> /\ args.melody_b # <<>>) =>
        /\ \A k \in 1..args.steps :
              /\ Len(ret.value[k + 1]) = Len(DtwAlignment)
              /\ \A x \in DOMAIN DtwAlignment :
                    \E n \in Nearest(DtwBlend(k, x)) :
                        ret.value[k + 1][x].midi = _snap_to_scale(n)
        /\ DtwExample

\* C10 as amended: the pitch of each intermediate note of DTW interpolation
\* is snapToScale of the linear blend truncated toward zero, and the example
\* gives 3 melodies with the middle pitch snapToScale(66).
C10_BlendTruncated ==
    (op = "dtw_interpolate" /\ args.melody_a # <<>> /\ args.melody_b # <<>>) =>
        /\ \A k \in 1..args.steps :
              /\ Len(ret.value[k + 1]) = Len(DtwAlignment)
              /\ \A x \in DOMAIN DtwAlignment :
                    ret.value[k + 1][x].midi = _snap_to_scale(RTrunc(DtwBlend(k, x)))
        /\ DtwExample

\* 61 to 72 at t = 1/3 blends to 64 2/3: the note is snapped from 64, and
\* snapping the nearest integer 65 would have given another pitch
C10_Witness ==
    /\ op = "dtw_interpolate"
    /\ Pitches(args.melody_a) = <<61>>
    /\ Pitches(args.melody_b) = <<72>>
    /\ args.steps = 2
    /\ ret.value[2][1].midi = _snap_to_scale(64)
    /\ _snap_to_scale(64) # _snap_to_scale(65)

----------------------------------------------------------------------------
(* Properties of _snap_to_scale (specification SpecSnap)                    *)

\* C8: snapToScale is idempotent: for every scale name and every integer
\* pitch p, snapToScale(snapToScale(p)) = snapToScale(p).
C8_SnapIdempotent ==
    (op = "_snap_to_scale" /\ args.from_snap) => ret.value = args.midi_note

\* a second snap of a pitch that the first snap had to move
C8_Witness ==
    /\ op = "_snap_to_scale"
    /\ args.from_snap
    /\ args.origin # args.midi_note
    /\ ret.value = args.midi_note
    /\ scale_type = "pentatonic"

\* C9: snapToScale returns the scale pitch nearest to its input: no pitch q
\* whose pitch class is one of the scale's offsets is closer to p than
\* snapToScale(p) is, the neighbouring octaves included.
C9_SnapNearest ==
    op = "_snap_to_scale" =>
        \A q \in (args.midi_note - 12)..(args.midi_note + 12) :
            (q % 12) \in Range(scale_intervals) =>
                Abs(q - args.midi_note) >= Abs(ret.value - args.midi_note)

----------------------------------------------------------------------------
(* Specification SpecDtw: _dtw_align called on two pitch sequences, then on
   the same two sequences exchanged. *)

DtwPitches == {60, 62, 65}

DtwSequences == UNION {[1..n -> DtwPitches] : n \in 1..MaxSeq}

InitDtw ==
    /\ scale_type = "major"
    /\ root_note = "C"
    /\ set_order = "ascending"
    /\ op = "idle"
    /\ args = NoArgs
    /\ ret = NoResult
    /\ ServicesIdle
    /\ variations = NoVariations

DtwAlign ==
    /\ op = "idle"
    /\ \E a \in DtwSequences, b \in DtwSequences :
          /\ args' = [seq_a |-> a, seq_b |-> b, exchanged |-> FALSE, before |-> <<>>]
          /\ ret' = Ok(_dtw_align(a, b))
    /\ op' = "_dtw_align"
    /\ UNCHANGED <<scale_type, root_note, set_order, variations, services>>

\* the call with the two sequences exchanged; the first call's alignment is
\* kept in args.before
DtwAlignExchanged ==
    /\ op = "_dtw_align"
    /\ ~args.exchanged
    /\ args' = [seq_a |-> args.seq_b, seq_b |-> args.seq_a,
                exchanged |-> TRUE, before |-> ret.value]
    /\ ret' = Ok(_dtw_align(args.seq_b, args.seq_a))
    /\ op' = "_dtw_align"
    /\ UNCHANGED <<scale_type, root_note, set_order, variations, services>>

NextDtw == DtwAlign \/ DtwAlignExchanged \/ Return

SpecDtw == InitDtw /\ [][NextDtw]_vars

----------------------------------------------------------------------------
(* C11 *)

\* the total cost of an alignment: the sum of |a[i] - b[j]| over its pairs
AlignmentCost(alignment, seq_a, seq_b) ==
    SumSeq([x \in DOMAIN alignment |->
               Abs(seq_a[alignment[x][1] + 1] - seq_b[alignment[x][2] + 1])])

\* an alignment with the two indices of every pair exchanged
Mirror(alignment) ==
    [x \in DOMAIN alignment |-> <<alignment[x][2], alignment[x][1]>>]

\* C11: the alignment _dtw_align computes for (B, A) has the same total cost
\* as the alignment it computed for (A, B), for all non-empty A and B.
C11_DtwCostSymmetric ==
    (op = "_dtw_align" /\ args.exchanged) =>
        AlignmentCost(ret.value, args.seq_a, args.seq_b)
            = AlignmentCost(args.before, args.seq_b, args.seq_a)

\* both calls made on sequences of positive cost whose two alignments are not
\* mirror images of each other
C11_Witness ==
    /\ op = "_dtw_align"
    /\ args.exchanged
    /\ ret.value # Mirror(args.before)
    /\ AlignmentCost(ret.value, args.seq_a, args.seq_b) > 0

----------------------------------------------------------------------------
(* transformations.py: MusicTransformer.  self.scale_intervals is
   scale_intervals and self.root_pitch.pitchClass is pitchClass(root_note),
   as for the other two classes.  A melody is a sequence of note records;
   time, duration and velocity are rationals. *)

\* the index, counted from 1, of the first occurrence of x in the list s
ListIndex(s, x) ==
    CHOOSE i \in DOMAIN s : s[i] = x /\ \A j \in DOMAIN s : s[j] = x => i <= j

get_scale_degree(midi_note) ==
    LET note_class == midi_note % 12
        root_class == pitchClass(root_note)
        interval_from_root == (note_class - root_class) % 12
        dist == [k \in DOMAIN scale_intervals |->
                    Abs(scale_intervals[k] - interval_from_root)]
        closest == MinByKey(scale_intervals, dist)
    IN  IF interval_from_root \in Range(scale_intervals)
        THEN ListIndex(scale_intervals, interval_from_root)
        ELSE ListIndex(scale_intervals, closest)

\* find_diatonic_interval with the octave adjustment left out
find_diatonic_interval_no_octave(midi_note, interval_steps) ==
    LET current_degree == get_scale_degree(midi_note) - 1
        target_degree == (current_degree + interval_steps) % Len(scale_intervals)
    IN  scale_intervals[target_degree + 1] - scale_intervals[current_degree + 1]

\* % and // of Python are the floor operations, as % and \div are here, so
\* the test target_degree < 0 of the source never succeeds
find_diatonic_interval(midi_note, interval_steps) ==
    LET current_degree == get_scale_degree(midi_note) - 1
        target_degree == (current_degree + interval_steps) % Len(scale_intervals)
        octave_adjustment == (current_degree + interval_steps) \div Len(scale_intervals)
        current_pos == scale_intervals[current_degree + 1]
        target_pos == scale_intervals[target_degree + 1]
    IN  target_pos - current_pos + (octave_adjustment * 12)

transpose_by_scale_degree(midi_note, degree_offset) ==
    midi_note + find_diatonic_interval(midi_note, degree_offset)

\* transpose keeping the pitches inside the MIDI range 0..127
transpose_clamped(notes, semitones) ==
    [i \in DOMAIN notes |->
        [notes[i] EXCEPT !.midi = SetMax({0, SetMin({127, notes[i].midi + semitones})})]]

transpose(notes, semitones) ==
    [i \in DOMAIN notes |-> [notes[i] EXCEPT !.midi = notes[i].midi + semitones]]

transpose_diatonic(notes, scale_steps) ==
    [i \in DOMAIN notes |->
        [notes[i] EXCEPT !.midi = transpose_by_scale_degree(notes[i].midi, scale_steps)]]

\* the axis strings made of digits that the model passes, and int() of them
DigitAxes == {"60"}
AxisToInt(axis) == CASE axis = "60" -> 60

invert(notes, axis) ==
    IF notes = <<>> THEN <<>>
    ELSE LET lowest == SetMin(Range(Pitches(notes)))
             highest == SetMax(Range(Pitches(notes)))
             axis_pitch ==
                 CASE axis = "center" -> (lowest + highest) \div 2
                   [] axis = "first-note" -> notes[1].midi
                   [] axis = "last-note" -> notes[Len(notes)].midi
                   [] OTHER -> IF axis \in DigitAxes THEN AxisToInt(axis)
                                                     ELSE notes[1].midi
         IN  [i \in DOMAIN notes |->
                 LET distance == notes[i].midi - axis_pitch
                 IN  [notes[i] EXCEPT !.midi = axis_pitch - distance]]

\* min(n['time'] for n in notes)
MinTime(notes) ==
    LET i == CHOOSE k \in DOMAIN notes :
                 \A j \in DOMAIN notes : RLe(notes[k].time, notes[j].time)
    IN  notes[i].time

augment(notes, factor) ==
    IF notes = <<>> THEN <<>>
    ELSE LET start_time == MinTime(notes)
         IN  [i \in DOMAIN notes |->
                 [notes[i] EXCEPT
                     !.time = RAdd(start_time, RMul(RSub(notes[i].time, start_time), factor)),
                     !.duration = RMul(notes[i].duration, factor)]]

\* diminish has the body of augment; only the default factor differs
diminish(notes, factor) ==
    IF notes = <<>> THEN <<>>
    ELSE LET start_time == MinTime(notes)
         IN  [i \in DOMAIN notes |->
                 [notes[i] EXCEPT
                     !.time = RAdd(start_time, RMul(RSub(notes[i].time, start_time), factor)),
                     !.duration = RMul(notes[i].duration, factor)]]

\* the two while loops of harmonize
RECURSIVE LowerTo96(_)
LowerTo96(harmony_pitch) ==
    IF harmony_pitch > 96 THEN LowerTo96(harmony_pitch - 12) ELSE harmony_pitch

RECURSIVE RaiseTo36(_)
RaiseTo36(harmony_pitch) ==
    IF harmony_pitch < 36 THEN RaiseTo36(harmony_pitch + 12) ELSE harmony_pitch

harmonize(notes, interval_degree) ==
    [i \in DOMAIN notes |->
        LET harmony_pitch ==
                notes[i].midi + find_diatonic_interval(notes[i].midi, interval_degree)
        IN  [notes[i] EXCEPT
                !.midi = RaiseTo36(LowerTo96(harmony_pitch)),
                !.velocity = RMul(notes[i].velocity, Rat(85, 100))]]

\* the pitch counter_melody computes for notes[i] (i counted from 0) under
\* one of the three plain styles, before the range adjustment
CounterPitch(notes, i, style) ==
    LET midi == notes[i + 1].midi
    IN  CASE style = "contrary" ->
               IF i > 0
               THEN LET prev_motion == midi - notes[i].midi
                    IN  IF prev_motion > 0
                        THEN midi + find_diatonic_interval(midi, -3)
                        ELSE IF prev_motion < 0
                        THEN midi + find_diatonic_interval(midi, 3)
                        ELSE midi + find_diatonic_interval(midi, -5)
               ELSE midi + find_diatonic_interval(midi, -3)
          [] style = "parallel" -> midi + find_diatonic_interval(midi, -3)
          [] style = "oblique" ->
               IF i % 2 = 0 THEN notes[1].midi
               ELSE midi + find_diatonic_interval(midi, -5)

\* "Ensure reasonable range": one shift by an octave at most
CounterRange(counter_pitch) ==
    IF counter_pitch < 36 THEN counter_pitch + 12
    ELSE IF counter_pitch > 96 THEN counter_pitch - 12
    ELSE counter_pitch

\* style_temp of the mixed branch at loop index i
StyleTemp(i) ==
    IF i % 4 = 0 THEN "contrary"
    ELSE IF i % 4 = 1 THEN "parallel"
    ELSE "oblique"

\* any style other than the three plain ones takes the mixed branch, which
\* returns from inside the first iteration of the loop, where i is 0
RECURSIVE counter_melody(_, _)
counter_melody(notes, style) ==
    IF notes = <<>> THEN <<>>
    ELSE IF style \in {"contrary", "parallel", "oblique"}
    THEN [x \in DOMAIN notes |->
             [notes[x] EXCEPT
                 !.midi = CounterRange(CounterPitch(notes, x - 1, style)),
                 !.velocity = RMul(notes[x].velocity, Rat(8, 10))]]
    ELSE LET i == 0
             note_data == notes[i + 1]
             style_temp == StyleTemp(i)
         IN  SubSeq(counter_melody(<<note_data>>, style_temp), 1, 1)
                 \o counter_melody(SubSeq(notes, i + 2, Len(notes)), style)

\* the notes one pass of the sequence loop appends
SequencePass(pattern, degree_offset, time_offset) ==
    [x \in DOMAIN pattern |->
        [pattern[x] EXCEPT
            !.midi = transpose_by_scale_degree(pattern[x].midi, degree_offset),
            !.time = RAdd(pattern[x].time, time_offset)]]

\* develop for the methods "sequence" and "retrograde"; the methods
\* "fragment" and "extend" draw from random and are not part of this model
develop(notes, method) ==
    IF notes = <<>> THEN <<>>
    ELSE CASE method = "sequence" ->
                LET pattern_length == Min2(4, Len(notes))
                    pattern == SubSeq(notes, 1, pattern_length)
                    d1 == pattern
                    d2 == d1 \o SequencePass(pattern, 2, RMul(RInt(Len(d1)), Rat(1, 2)))
                    d3 == d2 \o SequencePass(pattern, 4, RMul(RInt(Len(d2)), Rat(1, 2)))
                IN  d3 \o SequencePass(pattern, -1, RMul(RInt(Len(d3)), Rat(1, 2)))
           [] method = "retrograde" ->
                LET last == notes[Len(notes)]
                    total_duration == RAdd(last.time, last.duration)
                    rev == Reverse(notes)
                IN  [x \in DOMAIN rev |->
                        [rev[x] EXCEPT
                            !.time = RSub(total_duration,
                                          RAdd(rev[x].time, rev[x].duration))]]

----------------------------------------------------------------------------
(* Specification SpecTransform: the melody operators of MusicTransformer,
   each called on an onset-ordered melody; transpose, invert and
   develop("retrograde") are also called a second time on their own result. *)

TransformPitches == {20, 60, 61}

\* (time, duration): a long note, a note inside its span, a later note
TransformSlots == {<<RInt(0), RInt(2)>>, <<Rat(1, 2), Rat(1, 2)>>, <<RInt(2), Rat(1, 2)>>}

TransformNotes == {Note(p, s) : p \in TransformPitches, s \in TransformSlots}

TransformMelodies ==
    {m \in UNION {[1..n -> TransformNotes] : n \in 0..MaxMel} : OnsetOrdered(m)}

TransformScales == {"major", "pentatonic"}
TransformRoots == {"C", "D"}
Semitones == {-24, 0, 7}
ScaleSteps == {-1, 2}
Axes == {"center", "first-note", "last-note", "middle"} \cup DigitAxes
Factors == {Rat(1, 2), RInt(2), RInt(-1)}
IntervalDegrees == {3, -2}
Styles == {"contrary", "parallel", "oblique", "mixed"}
Methods == {"sequence", "retrograde"}

InitTransform ==
    /\ scale_type \in TransformScales
    /\ root_note \in TransformRoots
    /\ set_order = "ascending"
    /\ op = "idle"
    /\ args = NoArgs
    /\ ret = NoResult
    /\ ServicesIdle
    /\ variations = NoVariations

Transpose ==
    /\ op = "idle"
    /\ \E m \in TransformMelodies, n \in Semitones :
          /\ args' = [notes |-> m, semitones |-> n, again |-> FALSE, origin |-> <<>>]
          /\ ret' = Ok(transpose(m, n))
    /\ op' = "transpose"
    /\ UNCHANGED <<scale_type, root_note, set_order, variations, services>>

\* transpose(result, -s) after transpose(melody, s)
TransposeBack ==
    /\ op = "transpose"
    /\ ~args.again
    /\ args' = [notes |-> ret.value, semitones |-> -args.semitones,
                again |-> TRUE, origin |-> args.notes]
    /\ ret' = Ok(transpose(ret.value, -args.semitones))
    /\ op' = "transpose"
    /\ UNCHANGED <<scale_type, root_note, set_order, variations, services>>

TransposeDiatonic ==
    /\ op = "idle"
    /\ \E m \in TransformMelodies, n \in ScaleSteps :
          /\ args' = [notes |-> m, scale_steps |-> n]
          /\ ret' = Ok(transpose_diatonic(m, n))
    /\ op' = "transpose_diatonic"
    /\ UNCHANGED <<scale_type, root_note, set_order, variations, services>>

Invert ==
    /\ op = "idle"
    /\ \E m \in TransformMelodies, a \in Axes :
          /\ args' = [notes |-> m, axis |-> a, again |-> FALSE, origin |-> <<>>]
          /\ ret' = Ok(invert(m, a))
    /\ op' = "invert"
    /\ UNCHANGED <<scale_type, root_note, set_order, variations, services>>

\* invert(result, axis) after invert(melody, axis)
InvertAgain ==
    /\ op = "invert"
    /\ ~args.again
    /\ args' = [notes |-> ret.value, axis |-> args.axis,
                again |-> TRUE, origin |-> args.notes]
    /\ ret' = Ok(invert(ret.value, args.axis))
    /\ op' = "invert"
    /\ UNCHANGED <<scale_type, root_note, set_order, variations, services>>

Augment ==
    /\ op = "idle"
    /\ \E m \in TransformMelodies, f \in Factors :
          /\ args' = [notes |-> m, factor |-> f]
          /\ ret' = Ok(augment(m, f))
    /\ op' = "augment"
    /\ UNCHANGED <<scale_type, root_note, set_order, variations, services>>

Diminish ==
    /\ op = "idle"
    /\ \E m \in TransformMelodies, f \in Factors :
          /\ args' = [notes |-> m, factor |-> f]
          /\ ret' = Ok(diminish(m, f))
    /\ op' = "diminish"
    /\ UNCHANGED <<scale_type, root_note, set_order, variations, services>>

Harmonize ==
    /\ op = "idle"
    /\ \E m \in TransformMelodies, d \in IntervalDegrees :
          /\ args' = [notes |-> m, interval_degree |-> d]
          /\ ret' = Ok(harmonize(m, d))
    /\ op' = "harmonize"
    /\ UNCHANGED <<scale_type, root_note, set_order, variations, services>>

CounterMelody ==
    /\ op = "idle"
    /\ \E m \in TransformMelodies, st \in Styles :
          /\ args' = [notes |-> m, style |-> st]
          /\ ret' = Ok(counter_melody(m, st))
    /\ op' = "counter_melody"
    /\ UNCHANGED <<scale_type, root_note, set_order, variations, services>>

Develop ==
    /\ op = "idle"
    /\ \E m \in TransformMelodies, md \in Methods :
          /\ args' = [notes |-> m, method |-> md, again |-> FALSE, origin |-> <<>>]
          /\ ret' = Ok(develop(m, md))
    /\ op' = "develop"
    /\ UNCHANGED <<scale_type, root_note, set_order, variations, services>>

\* develop(result, "retrograde") after develop(melody, "retrograde")
DevelopAgain ==
    /\ op = "develop"
    /\ ~args.again
    /\ args.method = "retrograde"
    /\ args' = [notes |-> ret.value, method |-> args.method,
                again |-> TRUE, origin |-> args.notes]
    /\ ret' = Ok(develop(ret.value, args.method))
    /\ op' = "develop"
    /\ UNCHANGED <<scale_type, root_note, set_order, variations, services>>

NextTransform ==
    \/ Transpose \/ TransposeBack \/ TransposeDiatonic
    \/ Invert \/ InvertAgain
    \/ Augment \/ Diminish \/ Harmonize \/ CounterMelody
    \/ Develop \/ DevelopAgain
    \/ Return

SpecTransform == InitTransform /\ [][NextTransform]_vars

----------------------------------------------------------------------------
(* C12, C13, C14, C17, C18, C19: the melody operators *)

\* C12: transpose(transpose(melody, s), -s) has the pitches, onsets,
\* durations and velocities of the original melody, note for note.
C12_TransposeRoundTrip ==
    (op = "transpose" /\ args.again) => ret.value = args.origin

\* a round trip by a non-zero s of a melody of two or more notes whose
\* transposed pitches leave the MIDI range
C12_Witness ==
    /\ op = "transpose"
    /\ args.again
    /\ args.semitones # 0
    /\ Len(args.origin) >= 2
    /\ \E i \in DOMAIN args.notes : args.notes[i].midi < 0
    /\ ret.value = args.origin

\* C13: for every non-empty melody, invert(invert(melody, "center"),
\* "center") has exactly the original pitches, note for note, whatever the
\* parity of lowest + highest.
C13_InvertCenterInvolution ==
    (op = "invert" /\ args.again /\ args.axis = "center" /\ args.origin # <<>>) =>
        Pitches(ret.value) = Pitches(args.origin)

\* C14: for every onset-ordered melody, also one whose first onset is not 0,
\* develop(develop(melody, "retrograde"), "retrograde") returns the notes in
\* the original order, each with its original onset.
C14_RetrogradeInvolution ==
    (op = "develop" /\ args.again /\ args.method = "retrograde") =>
        /\ Len(ret.value) = Len(args.origin)
        /\ \A i \in DOMAIN args.origin :
              /\ ret.value[i].midi = args.origin[i].midi
              /\ ret.value[i].duration = args.origin[i].duration
              /\ ret.value[i].time = args.origin[i].time

\* C17: every pitch counter_melody returns, for every style and every input
\* melody with pitches in 0..127, lies in 36..96.
C17_CounterMelodyRange ==
    (op = "counter_melody" /\ \A i \in DOMAIN args.notes : args.notes[i].midi \in 0..127) =>
        \A i \in DOMAIN ret.value : ret.value[i].midi \in 36..96

\* C18: with style "mixed" the output has one note per input note, and the
\* note at index i of the whole input melody is given the pitch of the
\* contrary rule when i mod 4 = 0, of the parallel rule when i mod 4 = 1 and
\* of the oblique rule when i mod 4 is 2 or 3.
C18_MixedCycles ==
    (op = "counter_melody" /\ args.style = "mixed") =>
        /\ Len(ret.value) = Len(args.notes)
        /\ \A x \in DOMAIN args.notes :
              ret.value[x].midi
                  = CounterRange(CounterPitch(args.notes, x - 1, StyleTemp(x - 1)))

\* the operators C19 names, called with the parameters it names
OrderProducerCall ==
    \/ op \in {"transpose", "transpose_diatonic", "invert", "harmonize", "counter_melody"}
    \/ op \in {"augment", "diminish"} /\ RLt(RInt(0), args.factor)
    \/ op = "develop" /\ args.method \in {"sequence", "retrograde"}

\* C19: for every input melody whose onsets are non-decreasing, the output of
\* transpose, transpose_diatonic, invert, augment and diminish (factor > 0),
\* harmonize, counter_melody, develop("sequence") and develop("retrograde")
\* has non-decreasing onsets in list order.
C19_ProducersKeepOnsetOrder ==
    (op # "idle" /\ OrderProducerCall /\ OnsetOrdered(args.notes)) =>
        OnsetOrdered(ret.value)

----------------------------------------------------------------------------
(* Specification SpecDegree: the scale-degree helpers of MelodyValidator and
   MusicTransformer on every scale and root. *)

DegreePitches == (-MaxOffRange)..(127 + MaxOffRange)
StepPitches == 55..72
DegreeSteps == (-MaxDegreeSteps)..MaxDegreeSteps

InitDegree ==
    /\ scale_type \in ScaleNames \cup {UnknownScale}
    /\ root_note \in RootNotes
    /\ set_order = "ascending"
    /\ op = "idle"
    /\ args = NoArgs
    /\ ret = NoResult
    /\ ServicesIdle
    /\ variations = NoVariations

\* MelodyValidator._get_scale_degree
ValidatorScaleDegree ==
    /\ op = "idle"
    /\ \E p \in DegreePitches :
          /\ args' = [midi_note |-> p]
          /\ ret' = Ok(_get_scale_degree(p))
    /\ op' = "_get_scale_degree"
    /\ UNCHANGED <<scale_type, root_note, set_order, variations, services>>

\* MusicTransformer.get_scale_degree
TransformerScaleDegree ==
    /\ op = "idle"
    /\ \E p \in DegreePitches :
          /\ args' = [midi_note |-> p]
          /\ ret' = Ok(get_scale_degree(p))
    /\ op' = "get_scale_degree"
    /\ UNCHANGED <<scale_type, root_note, set_order, variations, services>>

FindDiatonicInterval ==
    /\ op = "idle"
    /\ \E p \in StepPitches, k \in DegreeSteps :
          /\ args' = [midi_note |-> p, interval_steps |-> k]
          /\ ret' = Ok(find_diatonic_interval(p, k))
    /\ op' = "find_diatonic_interval"
    /\ UNCHANGED <<scale_type, root_note, set_order, variations, services>>

NextDegree ==
    ValidatorScaleDegree \/ TransformerScaleDegree \/ FindDiatonicInterval \/ Return

SpecDegree == InitDegree /\ [][NextDegree]_vars

----------------------------------------------------------------------------
(* C15, C16 *)

\* C15: the scale degree is between 1 and 7 for every integer pitch, every
\* root and every scale name, in the validator's _get_scale_degree and in
\* the transformer's get_scale_degree.
C15_ScaleDegreeIn1To7 ==
    op \in {"_get_scale_degree", "get_scale_degree"} => ret.value \in 1..7

\* x is a pitch of the scale built on the root
InScale(x) == ((x - pitchClass(root_note)) % 12) \in Range(scale_intervals)

\* the number of scale pitches in lo..hi
ScalePitchCount(lo, hi) == Cardinality({x \in lo..hi : InScale(x)})

\* C16: for a pitch p of the scale and k steps, p + diatonicInterval(p, k) is
\* a pitch of the scale, the k-th scale pitch above p when k > 0 and the
\* |k|-th below p when k < 0; k = 0 gives delta 0.
C16_DiatonicStep ==
    (op = "find_diatonic_interval" /\ InScale(args.midi_note)) =>
        LET p == args.midi_note
            k == args.interval_steps
            q == p + ret.value
        IN  /\ InScale(q)
            /\ k = 0 => q = p
            /\ k > 0 => q > p /\ ScalePitchCount(p + 1, q) = k
            /\ k < 0 => q < p /\ ScalePitchCount(q, p - 1) = -k

\* a step down from a scale pitch that lands more than an octave below it
C16_Witness ==
    /\ op = "find_diatonic_interval"
    /\ InScale(args.midi_note)
    /\ scale_type = "pentatonic"
    /\ root_note = "G"
    /\ args.interval_steps < 0
    /\ ret.value < -12
    /\ ScalePitchCount(args.midi_note + ret.value, args.midi_note - 1) = -args.interval_steps

----------------------------------------------------------------------------
(* Specification SpecCadence: check_cadence on melodies of up to
   MaxCadenceLen notes. *)

CadencePitches == {60, 62, 64, 65, 67, 71, 72}

CadenceMelodies ==
    UNION {[1..n -> {Note(p, Slot1) : p \in CadencePitches}] : n \in 0..MaxCadenceLen}

CadenceScales == {"major", "pentatonic", "chromatic"}
CadenceRoots == {"C", "G"}

InitCadence ==
    /\ scale_type \in CadenceScales
    /\ root_note \in CadenceRoots
    /\ set_order = "ascending"
    /\ op = "idle"
    /\ args = NoArgs
    /\ ret = NoResult
    /\ ServicesIdle
    /\ variations = NoVariations

CheckCadence ==
    /\ op = "idle"
    /\ \E m \in CadenceMelodies :
          /\ args' = [melody_notes |-> m]
          /\ ret' = Ok(check_cadence(m))
    /\ op' = "check_cadence"
    /\ UNCHANGED <<scale_type, root_note, set_order, variations, services>>

NextCadence == CheckCadence \/ Return

SpecCadence == InitCadence /\ [][NextCadence]_vars

----------------------------------------------------------------------------
(* C20 *)

\* the label of the pattern d1 -> 1
PatternLabel(d1) ==
    CASE d1 = 7 -> "Leading tone to tonic"
      [] d1 = 2 -> "Supertonic to tonic"
      [] d1 = 5 -> "Dominant to tonic"
      [] d1 = 4 -> "Subdominant to tonic"
      [] d1 = 1 -> "Tonic to tonic"

\* C20: check_cadence fails every melody of fewer than 2 notes; otherwise,
\* with (d1, d2) the scale degrees of the last two notes, it passes with the
\* pattern's label when (d1, d2) is one of 7->1, 2->1, 5->1, 4->1, 1->1,
\* passes with the label "Ends on tonic" when d2 = 1 and the pair is none of
\* these, and fails otherwise; in C major a melody ending 67, 72 passes with
\* the label "Dominant to tonic".
C20_CadenceRule ==
    op = "check_cadence" =>
        LET m == args.melody_notes
            n == Len(m)
            d1 == _get_scale_degree(m[n - 1].midi)
            d2 == _get_scale_degree(m[n].midi)
        IN  /\ n < 2 => ~ret.value.passed
            /\ (n >= 2 /\ d2 = 1 /\ d1 \in {7, 2, 5, 4, 1}) =>
                   ret.value.passed /\ ret.value.cadence_type = PatternLabel(d1)
            /\ (n >= 2 /\ d2 = 1 /\ d1 \notin {7, 2, 5, 4, 1}) =>
                   ret.value.passed /\ ret.value.cadence_type = "Ends on tonic"
            /\ (n >= 2 /\ d2 # 1) => ~ret.value.passed
            /\ (n >= 2 /\ scale_type = "major" /\ root_note = "C"
                    /\ m[n - 1].midi = 67 /\ m[n].midi = 72) =>
                   ret.value.passed /\ ret.value.cadence_type = "Dominant to tonic"

\* a melody of four notes in C major that ends 67, 72 after a different
\* opening pair, found to be a dominant-to-tonic cadence
C20_Witness ==
    /\ op = "check_cadence"
    /\ scale_type = "major"
    /\ root_note = "C"
    /\ Len(args.melody_notes) = 4
    /\ Pitches(args.melody_notes) = <<64, 62, 67, 72>>
    /\ ret.value.passed
    /\ ret.value.cadence_type = "Dominant to tonic"

----------------------------------------------------------------------------
(* C27, C28 *)

\* the predecessor the claim prescribes for the pair <<a, b>> of an
\* alignment: the cell of least cost among diagonal, up and left, the
\* diagonal first on ties, then up, then left
PrescribedPredecessor(seq_a, seq_b, pair) ==
    LET i == pair[1] + 1
        j == pair[2] + 1
        diagonal == DtwCost(seq_a, seq_b, i - 1, j - 1)
        up == DtwCost(seq_a, seq_b, i - 1, j)
        left == DtwCost(seq_a, seq_b, i, j - 1)
        least == Min3(diagonal, up, left)
    IN  IF diagonal = least THEN <<pair[1] - 1, pair[2] - 1>>
        ELSE IF up = least THEN <<pair[1] - 1, pair[2]>>
        ELSE <<pair[1], pair[2] - 1>>

\* two of the three predecessors of the pair have the least cost
TieAt(seq_a, seq_b, pair) ==
    LET i == pair[1] + 1
        j == pair[2] + 1
        costs == <<DtwCost(seq_a, seq_b, i - 1, j - 1),
                   DtwCost(seq_a, seq_b, i - 1, j),
                   DtwCost(seq_a, seq_b, i, j - 1)>>
        least == Min3(costs[1], costs[2], costs[3])
    IN  Cardinality({c \in 1..3 : costs[c] = least}) >= 2

\* C27: for non-empty sequences of lengths n and m, _dtw_align returns a
\* warping path: it starts with (0,0), ends with (n-1,m-1), each step raises
\* the first index, the second or both by exactly 1, its length is between
\* max(n,m) and n+m-1, and every pair but the first was reached from the
\* predecessor of least cost, the diagonal preferred on ties, then up, then
\* left.
C27_WarpingPath ==
    op = "_dtw_align" =>
        LET al == ret.value
            n == Len(args.seq_a)
            m == Len(args.seq_b)
        IN  /\ Len(al) >= 1
            /\ al[1] = <<0, 0>>
            /\ al[Len(al)] = <<n - 1, m - 1>>
            /\ \A x \in 1..(Len(al) - 1) :
                  <<al[x + 1][1] - al[x][1], al[x + 1][2] - al[x][2]>>
                      \in {<<1, 1>>, <<1, 0>>, <<0, 1>>}
            /\ {al[x][1] : x \in DOMAIN al} = 0..(n - 1)
            /\ {al[x][2] : x \in DOMAIN al} = 0..(m - 1)
            /\ Len(al) >= SetMax({n, m})
            /\ Len(al) <= n + m - 1
            /\ \A x \in 2..Len(al) :
                  al[x - 1] = PrescribedPredecessor(args.seq_a, args.seq_b, al[x])

\* an alignment of sequences of different lengths in which a tie between
\* predecessors was met
C27_Witness ==
    /\ op = "_dtw_align"
    /\ Len(args.seq_a) # Len(args.seq_b)
    /\ Len(ret.value) >= 3
    /\ \E x \in 2..Len(ret.value) : TieAt(args.seq_a, args.seq_b, ret.value[x])
    /\ ret.value[1] = <<0, 0>>

\* C28: whenever check_cadence passes a melody of at least 2 notes, the pitch
\* class of the final note is the pitch class of the root.
C28_PassEndsOnRoot ==
    (op = "check_cadence" /\ Len(args.melody_notes) >= 2 /\ ret.value.passed) =>
        args.melody_notes[Len(args.melody_notes)].midi % 12 = pitchClass(root_note)

----------------------------------------------------------------------------
(* Specification SpecKey: check_key_membership on every scale and root, on
   melodies of up to MaxKeyLen notes made of two pitches, and on melodies
   made of the scale's own tones in one octave. *)

KeyPitches == {60, 61, 66}

\* n notes of pitch p
Repeated(p, n) == [i \in 1..n |-> Note(p, Slot1)]

TwoPitchMelodies ==
    {Repeated(p, a) \o Repeated(q, b) :
        p \in KeyPitches, q \in KeyPitches,
        a \in 0..MaxKeyLen, b \in 0..MaxKeyLen}

KeyMelodies == {m \in TwoPitchMelodies : Len(m) <= MaxKeyLen}

\* the first n tones of the scale on the root, in octave o
ScaleToneMelody(o, n) ==
    [i \in 1..n |-> Note(pitchClass(root_note) + scale_intervals[i] + 12 * o, Slot1)]

ScaleToneMelodies ==
    {ScaleToneMelody(o, n) : o \in 0..9, n \in 1..Len(scale_intervals)}

InitKey ==
    /\ scale_type \in ScaleNames \cup {UnknownScale}
    /\ root_note \in RootNotes
    /\ set_order = "ascending"
    /\ op = "idle"
    /\ args = NoArgs
    /\ ret = NoResult
    /\ ServicesIdle
    /\ variations = NoVariations

CheckKeyMembership ==
    /\ op = "idle"
    /\ \E m \in KeyMelodies \cup ScaleToneMelodies :
          /\ args' = [melody_notes |-> m]
          /\ ret' = Ok(check_key_membership(m))
    /\ op' = "check_key_membership"
    /\ UNCHANGED <<scale_type, root_note, set_order, variations, services>>

NextKey == CheckKeyMembership \/ Return

SpecKey == InitKey /\ [][NextKey]_vars

----------------------------------------------------------------------------
(* C21 *)

\* the number of notes of the melody whose pitch is a pitch of the scale
InScaleCount(melody) ==
    Cardinality({i \in DOMAIN melody : InScale(melody[i].midi)})

\* C21: check_key_membership on a non-empty melody passes exactly when at
\* least 90% of its notes are in the scale; a melody made only of the scale's
\* tones reports in_scale_percentage = 100 and passes, for every scale and
\* root.
C21_KeyMembership ==
    (op = "check_key_membership" /\ args.melody_notes # <<>>) =>
        LET n == Len(args.melody_notes)
            k == InScaleCount(args.melody_notes)
        IN  /\ ret.value.passed <=> (10 * k >= 9 * n)
            /\ k = n => ret.value.in_scale_percentage = RInt(100) /\ ret.value.passed

\* ten notes of which exactly nine are in the scale, passed
C21_Witness ==
    /\ op = "check_key_membership"
    /\ Len(args.melody_notes) = 10
    /\ InScaleCount(args.melody_notes) = 9
    /\ ret.value.passed
    /\ ret.value.in_scale_percentage = RInt(90)

-----------------------------------------------------------------------------
(* services/loop_manager.py: LoopManager.  self._loops is a dict keyed by the *)
(* pair (target_group, osc_address); every method body runs under self._lock, *)
(* so each call is one step.                                                  *)

None == "None"

\* the None that get_loop answers with, in the shape of a stored loop
NoLoop == [address |-> None, payload |-> None]

\* d[k] = v on a dict
Put(d, k, v) == [x \in DOMAIN d \cup {k} |-> IF x = k THEN v ELSE d[x]]

\* del d[k] for every k of ks
Drop(d, ks) == [x \in DOMAIN d \ ks |-> d[x]]

\* one loop per target group: storing a loop drops the group's other loops
add_loop_per_group(loops, target_group, osc_address, json_payload) ==
    Put(Drop(loops, {k \in DOMAIN loops : k[1] = target_group}),
        <<target_group, osc_address>>,
        [address |-> osc_address, payload |-> json_payload])

add_loop(loops, target_group, osc_address, json_payload) ==
    Put(loops, <<target_group, osc_address>>,
        [address |-> osc_address, payload |-> json_payload])

get_loop(loops, target_group, osc_address) ==
    IF <<target_group, osc_address>> \in DOMAIN loops
    THEN loops[<<target_group, osc_address>>]
    ELSE NoLoop

remove_loop(loops, target_group, osc_address) ==
    IF <<target_group, osc_address>> \in DOMAIN loops
    THEN Drop(loops, {<<target_group, osc_address>>})
    ELSE loops

remove_all_for_target_group(loops, target_group) ==
    LET keys_to_remove == {k \in DOMAIN loops : k[1] = target_group}
    IN  Drop(loops, keys_to_remove)

\* Python's == between a key of the dict, a tuple, and an int: never equal
TupleEqualsInt(key, target_group) == FALSE

\* target_group in self._loops: some key of the dict equals target_group
has_loop(loops, target_group) ==
    \E key \in DOMAIN loops : TupleEqualsInt(key, target_group)

clear_all(loops) == Drop(loops, DOMAIN loops)

TargetGroups == {0, 1}
OscAddresses == {"/melody", "/chord"}
Payloads == {"{a}", "{b}"}

\* how many state-changing calls one LoopManager receives in the model
MaxCalls == 3

InitLoops ==
    /\ scale_type = "major"
    /\ root_note = "C"
    /\ set_order = <<>>
    /\ variations = <<>>
    /\ op = "idle"
    /\ args = NoArgs
    /\ ret = NoResult
    /\ ServicesIdle

LoopFrame ==
    UNCHANGED <<scale_type, root_note, set_order, variations, random_state, clock,
                completion_events, pending_events, active_websockets,
                _completion_events, _pending_events, _active_websockets,
                handler, task, wire>>

\* a call that changes the dict: the caller keeps the dict it saw before
LoopCall(name, call, loops) ==
    /\ op = "idle"
    /\ Len(history) < MaxCalls
    /\ op' = name
    /\ args' = [call |-> call, before |-> _loops]
    /\ ret' = Ok(None)
    /\ _loops' = loops
    /\ history' = Append(history, call)
    /\ LoopFrame

AddLoop ==
    \E g \in TargetGroups, a \in OscAddresses, p \in Payloads :
        LoopCall("add_loop",
                 [name |-> "add_loop", target_group |-> g, osc_address |-> a,
                  json_payload |-> p],
                 add_loop(_loops, g, a, p))

RemoveLoop ==
    \E g \in TargetGroups, a \in OscAddresses :
        LoopCall("remove_loop",
                 [name |-> "remove_loop", target_group |-> g, osc_address |-> a,
                  json_payload |-> None],
                 remove_loop(_loops, g, a))

RemoveAllForTargetGroup ==
    \E g \in TargetGroups :
        LoopCall("remove_all_for_target_group",
                 [name |-> "remove_all_for_target_group", target_group |-> g,
                  osc_address |-> None, json_payload |-> None],
                 remove_all_for_target_group(_loops, g))

ClearAll ==
    LoopCall("clear_all",
             [name |-> "clear_all", target_group |-> -1, osc_address |-> None,
              json_payload |-> None],
             clear_all(_loops))

GetLoop ==
    \E g \in TargetGroups, a \in OscAddresses :
        /\ op = "idle"
        /\ op' = "get_loop"
        /\ args' = [call |-> [name |-> "get_loop", target_group |-> g,
                              osc_address |-> a, json_payload |-> None],
                    before |-> _loops]
        /\ ret' = Ok(get_loop(_loops, g, a))
        /\ UNCHANGED <<_loops, history>>
        /\ LoopFrame

HasLoop ==
    \E g \in TargetGroups :
        /\ op = "idle"
        /\ op' = "has_loop"
        /\ args' = [call |-> [name |-> "has_loop", target_group |-> g,
                              osc_address |-> None, json_payload |-> None],
                    before |-> _loops]
        /\ ret' = Ok(has_loop(_loops, g))
        /\ UNCHANGED <<_loops, history>>
        /\ LoopFrame

NextLoops ==
    \/ AddLoop
    \/ RemoveLoop
    \/ RemoveAllForTargetGroup
    \/ ClearAll
    \/ GetLoop
    \/ HasLoop
    \/ Return

SpecLoops == InitLoops /\ [][NextLoops]_vars

\* C25: has_loop(g) answers True exactly when a loop is stored for target
\* group g, under either address, whatever calls were made before
C25_HasLoop ==
    op = "has_loop" =>
        (ret.value <=> \E key \in DOMAIN _loops : key[1] = args.call.target_group)

\* does the call remove the entry of the key (g, a)?
Removes(call, g, a) ==
    \/ call.name = "remove_loop" /\ call.target_group = g /\ call.osc_address = a
    \/ call.name = "remove_all_for_target_group" /\ call.target_group = g
    \/ call.name = "clear_all"

Adds(call, g, a) ==
    call.name = "add_loop" /\ call.target_group = g /\ call.osc_address = a

\* the positions in the history of the calls add_loop(g, a, .) that no later
\* call of the history removed
LiveAdds(g, a) ==
    {i \in DOMAIN history :
        /\ Adds(history[i], g, a)
        /\ \A j \in (i + 1)..Len(history) : ~Removes(history[j], g, a)}

\* the dict the call found, and the one it left, agree on the key
SameEntry(key) ==
    /\ key \in DOMAIN _loops <=> key \in DOMAIN args.before
    /\ key \in DOMAIN _loops => _loops[key] = args.before[key]

\* C30: each LoopManager call touches only the entries it names: add_loop
\* sets its own key and keeps every other entry, remove_loop removes at most
\* its own key, remove_all_for_target_group removes exactly the entries of its
\* group and keeps those of every other group, and get_loop answers with the
\* payload of the latest add_loop of the key that no later call removed, or
\* None when there is none
C30_LoopFrame ==
    LET c == args.call
        own == <<c.target_group, c.osc_address>>
        Keys == TargetGroups \X OscAddresses
    IN  /\ op = "add_loop" =>
            /\ own \in DOMAIN _loops
            /\ _loops[own] = [address |-> c.osc_address, payload |-> c.json_payload]
            /\ \A key \in Keys \ {own} : SameEntry(key)
        /\ op = "remove_loop" =>
            /\ own \notin DOMAIN _loops
            /\ \A key \in Keys \ {own} : SameEntry(key)
        /\ op = "remove_all_for_target_group" =>
            /\ \A key \in Keys :
                  IF key[1] = c.target_group THEN key \notin DOMAIN _loops
                  ELSE SameEntry(key)
        /\ op = "get_loop" =>
            /\ _loops = args.before
            /\ LET live == LiveAdds(c.target_group, c.osc_address)
               IN  IF live = {} THEN ret.value = NoLoop
                   ELSE ret.value = [address |-> c.osc_address,
                                     payload |-> history[SetMax(live)].json_payload]

\* /melody and /chord loops of target group 0 are stored together, the
\* /melody one for the second time, and get_loop has just answered with the
\* payload added last
C30_Witness ==
    /\ op = "get_loop"
    /\ args.call.target_group = 0
    /\ args.call.osc_address = "/melody"
    /\ Len(history) = 3
    /\ Adds(history[1], 0, "/melody")
    /\ Adds(history[2], 0, "/chord")
    /\ Adds(history[3], 0, "/melody")
    /\ history[1].json_payload # history[3].json_payload
    /\ <<0, "/chord">> \in DOMAIN _loops
    /\ ret.value.payload = history[3].json_payload

-----------------------------------------------------------------------------
(* main.py: the completion events.  handle_melody_complete runs on the        *)
(* threads of the ThreadingOSCUDPServer, one thread per message;              *)
(* broadcast_pending_events and websocket_completions are coroutines of the   *)
(* one event loop, so a coroutine runs undisturbed by the other coroutines    *)
(* from one await to the next, while the handler threads run at any time.     *)
(* No lock protects the module's lists.                                       *)

\* list(s) of a set: its elements in an order the language leaves open
Orders(S) == {s \in [1..Cardinality(S) -> S] : Range(s) = S}

\* the len(completion_events) > 100 of handle_melody_complete
max_completion_events == 100

Layers == {1}
WebSockets == {"ws1", "ws2"}

\* how many completion events arrive in the model
MaxEvents == 2

InitMain ==
    /\ scale_type = "major"
    /\ root_note = "C"
    /\ set_order = <<>>
    /\ variations = <<>>
    /\ op = "idle"
    /\ args = NoArgs
    /\ ret = NoResult
    /\ ServicesIdle

\* lines 55-58: a handler thread builds its event
HandleMelodyComplete ==
    \E layer_number \in Layers :
        /\ clock < MaxEvents
        /\ handler' = handler \cup
               {[event |-> [layer |-> layer_number, timestamp |-> clock],
                 pc |-> "completion_events.append"]}
        /\ clock' = clock + 1
        /\ UNCHANGED <<scale_type, root_note, set_order, op, args, ret, variations,
                       random_state, _loops, history, completion_events,
                       pending_events, active_websockets, _completion_events,
                       _pending_events, _active_websockets, task, wire>>

HandlerFrame ==
    UNCHANGED <<scale_type, root_note, set_order, op, args, ret, variations,
                random_state, clock, _loops, history, active_websockets,
                _completion_events, _pending_events, _active_websockets,
                task, wire>>

\* line 59
AppendCompletionEvent ==
    \E h \in handler :
        /\ h.pc = "completion_events.append"
        /\ completion_events' = Append(completion_events, h.event)
        /\ handler' = (handler \ {h}) \cup {[h EXCEPT !.pc = "pending_events.append"]}
        /\ UNCHANGED pending_events
        /\ HandlerFrame

\* line 60
AppendPendingEvent ==
    \E h \in handler :
        /\ h.pc = "pending_events.append"
        /\ pending_events' = Append(pending_events, h.event)
        /\ handler' = (handler \ {h}) \cup {[h EXCEPT !.pc = "trim"]}
        /\ UNCHANGED completion_events
        /\ HandlerFrame

\* lines 63-64, and the thread ends
TrimCompletionEvents ==
    \E h \in handler :
        /\ h.pc = "trim"
        /\ completion_events' =
               IF Len(completion_events) > max_completion_events
               THEN Tail(completion_events)
               ELSE completion_events
        /\ handler' = handler \ {h}
        /\ UNCHANGED pending_events
        /\ HandlerFrame

TaskFrame ==
    UNCHANGED <<scale_type, root_note, set_order, op, args, ret, variations,
                random_state, clock, _loops, history, completion_events,
                _completion_events, _pending_events, _active_websockets, handler>>

\* line 70, after the sleep of line 88 is over: the test succeeds
TestPending ==
    /\ task.pc = "loop"
    /\ pending_events # <<>> /\ active_websockets # {}
    /\ task' = [task EXCEPT !.pc = "copy"]
    /\ UNCHANGED <<pending_events, active_websockets, wire>>
    /\ TaskFrame

\* line 72
CopyPending ==
    /\ task.pc = "copy"
    /\ task' = [task EXCEPT !.pc = "clear", !.events_to_send = pending_events]
    /\ UNCHANGED <<pending_events, active_websockets, wire>>
    /\ TaskFrame

\* lines 73-78: clear, and run up to the first await of the loops
ClearPending ==
    \E order \in Orders(active_websockets) :
        /\ task.pc = "clear"
        /\ pending_events' = <<>>
        /\ task' = [task EXCEPT !.pc = "send", !.disconnected = {}, !.event = 1,
                                !.websockets_to_notify = order, !.websocket = 1]
        /\ UNCHANGED <<active_websockets, wire>>
        /\ TaskFrame

\* lines 79-88: one await websocket.send_json(event), which may raise, and the
\* code after it up to the next await: the next send_json, or the sleep after
\* the loops and line 86
SendJson ==
    \E raised \in BOOLEAN, order \in Orders(active_websockets) :
        LET websocket == task.websockets_to_notify[task.websocket]
            event == task.events_to_send[task.event]
            disconnected == IF raised THEN task.disconnected \cup {websocket}
                            ELSE task.disconnected
        IN  /\ task.pc = "send"
            /\ wire' = [wire EXCEPT ![websocket] = Append(@, event)]
            /\ IF task.websocket < Len(task.websockets_to_notify)
               THEN /\ task' = [task EXCEPT !.websocket = @ + 1,
                                            !.disconnected = disconnected]
                    /\ UNCHANGED active_websockets
               ELSE IF task.event < Len(task.events_to_send) /\ order # <<>>
               THEN /\ task' = [task EXCEPT !.event = @ + 1, !.websocket = 1,
                                            !.websockets_to_notify = order,
                                            !.disconnected = disconnected]
                    /\ UNCHANGED active_websockets
               ELSE /\ task' = [task EXCEPT !.pc = "loop",
                                            !.disconnected = disconnected]
                    /\ active_websockets' = active_websockets \ disconnected
            /\ UNCHANGED pending_events
            /\ TaskFrame

\* lines 206-207: a client connects; its coroutine runs while the broadcast
\* task waits in an await
WebsocketConnect ==
    \E websocket \in WebSockets \ DOMAIN wire :
        /\ task.pc \in {"loop", "send"}
        /\ active_websockets' = active_websockets \cup {websocket}
        /\ wire' = Put(wire, websocket, <<>>)
        /\ UNCHANGED <<pending_events, task>>
        /\ TaskFrame

\* lines 215-216: the client has gone
WebsocketDisconnect ==
    \E websocket \in active_websockets :
        /\ task.pc \in {"loop", "send"}
        /\ active_websockets' = active_websockets \ {websocket}
        /\ UNCHANGED <<pending_events, task, wire>>
        /\ TaskFrame

NextMain ==
    \/ HandleMelodyComplete
    \/ AppendCompletionEvent
    \/ AppendPendingEvent
    \/ TrimCompletionEvents
    \/ TestPending
    \/ CopyPending
    \/ ClearPending
    \/ SendJson
    \/ WebsocketConnect
    \/ WebsocketDisconnect

SpecMain == InitMain /\ [][NextMain]_vars

\* C26: under every interleaving of the handler threads with the broadcast
\* task, an event leaves pending_events only into the batch the task goes on
\* to send: no step removes an event from pending_events that the task does
\* not hold in events_to_send afterwards
C26_NoEventLost ==
    [][\A i \in DOMAIN pending_events :
           \/ pending_events[i] \in Range(pending_events')
           \/ pending_events[i] \in Range(task'.events_to_send)]_vars

-----------------------------------------------------------------------------
(* services/event_broadcaster.py: EventBroadcaster.  add_event,               *)
(* add_websocket and remove_websocket may be called from any thread; what     *)
(* they do under self._lock is one step.  broadcast_pending_events is an      *)
(* asyncio task: it takes the lock for lines 90-94 and for line 108 only.     *)

\* EventBroadcaster(max_history): the length the stored history is cut to
max_history == 2

\* how many add_event calls are made in the model
MaxAdds == 3

\* the target groups that complete
CompletedGroups == {0}

\* line 91 with the pending list alone deciding
ShouldDrain_pending_only(pending, websockets) == pending # <<>>

\* line 91: if self._pending_events and self._active_websockets
ShouldDrain(pending, websockets) == pending # <<>> /\ websockets # {}

InitBroadcast ==
    /\ scale_type = "major"
    /\ root_note = "C"
    /\ set_order = <<>>
    /\ variations = <<>>
    /\ op = "idle"
    /\ args = NoArgs
    /\ ret = NoResult
    /\ ServicesIdle

BroadcastFrame ==
    UNCHANGED <<scale_type, root_note, set_order, op, args, ret, variations,
                random_state, _loops, completion_events, pending_events,
                active_websockets>>

\* lines 28-32: the caller's thread builds the event
AddEvent ==
    \E target_group \in CompletedGroups :
        /\ clock < MaxAdds
        /\ handler' = handler \cup
               {[event |-> [targetGroup |-> target_group, layer |-> target_group,
                            timestamp |-> clock],
                 pc |-> "lock"]}
        /\ clock' = clock + 1
        /\ UNCHANGED <<history, _completion_events, _pending_events,
                       _active_websockets, task, wire>>
        /\ BroadcastFrame

\* lines 34-39, under the lock
StoreEvent ==
    \E h \in handler :
        LET appended == Append(_completion_events, h.event)
        IN  /\ _completion_events' =
                   IF Len(appended) > max_history THEN Tail(appended) ELSE appended
            /\ _pending_events' = Append(_pending_events, h.event)
            /\ history' = Append(history, [name |-> "add_event", event |-> h.event])
            /\ handler' = handler \ {h}
            /\ UNCHANGED <<clock, _active_websockets, task, wire>>
            /\ BroadcastFrame

\* lines 66-67
AddWebsocket ==
    \E websocket \in WebSockets \ _active_websockets :
        /\ _active_websockets' = _active_websockets \cup {websocket}
        /\ wire' = IF websocket \in DOMAIN wire THEN wire
                   ELSE Put(wire, websocket, <<>>)
        /\ UNCHANGED <<clock, history, _completion_events, _pending_events,
                       handler, task>>
        /\ BroadcastFrame

\* lines 77-78
RemoveWebsocket ==
    \E websocket \in _active_websockets :
        /\ _active_websockets' = _active_websockets \ {websocket}
        /\ UNCHANGED <<clock, history, _completion_events, _pending_events,
                       handler, task, wire>>
        /\ BroadcastFrame

\* lines 86-97, after the sleep of line 110 is over: the locals are reset,
\* the pending events are taken under the lock, and the task reaches its
\* first send_json or sleeps again
Drain ==
    \E order \in Orders(_active_websockets) :
        LET take == ShouldDrain(_pending_events, _active_websockets)
            events_to_send == IF take THEN _pending_events ELSE <<>>
            websockets_to_notify == IF take THEN order ELSE <<>>
        IN  /\ task.pc = "loop"
            /\ _pending_events' = IF take THEN <<>> ELSE _pending_events
            /\ task' = [pc |-> IF events_to_send # <<>> /\ websockets_to_notify # <<>>
                               THEN "send" ELSE "loop",
                        events_to_send |-> events_to_send,
                        websockets_to_notify |-> websockets_to_notify,
                        event |-> 1, websocket |-> 1, disconnected |-> {}]
            /\ UNCHANGED <<clock, history, _completion_events, _active_websockets,
                           handler, wire>>
            /\ BroadcastFrame

\* lines 98-106: one await websocket.send_json(event), which may raise
BroadcastSendJson ==
    \E raised \in BOOLEAN :
        LET websocket == task.websockets_to_notify[task.websocket]
            event == task.events_to_send[task.event]
            disconnected == IF raised THEN task.disconnected \cup {websocket}
                            ELSE task.disconnected
        IN  /\ task.pc = "send"
            /\ wire' = [wire EXCEPT ![websocket] = Append(@, event)]
            /\ task' =
                   IF task.websocket < Len(task.websockets_to_notify)
                   THEN [task EXCEPT !.websocket = @ + 1,
                                     !.disconnected = disconnected]
                   ELSE IF task.event < Len(task.events_to_send)
                   THEN [task EXCEPT !.event = @ + 1, !.websocket = 1,
                                     !.disconnected = disconnected]
                   ELSE [task EXCEPT !.pc = IF disconnected # {} THEN "update"
                                            ELSE "loop",
                                     !.disconnected = disconnected]
            /\ UNCHANGED <<clock, history, _completion_events, _pending_events,
                           _active_websockets, handler>>
            /\ BroadcastFrame

\* lines 107-110
DifferenceUpdate ==
    /\ task.pc = "update"
    /\ _active_websockets' = _active_websockets \ task.disconnected
    /\ task' = [task EXCEPT !.pc = "loop"]
    /\ UNCHANGED <<clock, history, _completion_events, _pending_events,
                   handler, wire>>
    /\ BroadcastFrame

NextBroadcast ==
    \/ AddEvent
    \/ StoreEvent
    \/ AddWebsocket
    \/ RemoveWebsocket
    \/ Drain
    \/ BroadcastSendJson
    \/ DifferenceUpdate

SpecBroadcast == InitBroadcast /\ [][NextBroadcast]_vars

\* the events in the order in which add_event stored them
Arrived == [i \in DOMAIN history |-> history[i].event]

\* how often the event occurs in the sequence
Occurrences(s, e) == Cardinality({i \in DOMAIN s : s[i] = e})

\* send_json has been called with the event on the WebSocket
SentTo(websocket, e) == e \in Range(wire[websocket])

\* the position of the broadcast task in its two loops is past (i, j)
Attempted(i, j) ==
    \/ task.pc \in {"loop", "update"}
    \/ i < task.event
    \/ i = task.event /\ j < task.websocket

\* C29: under every interleaving of add_event, add_websocket,
\* remove_websocket and the broadcast task, (1) an event leaves the pending
\* list only in a drain taken while a WebSocket was registered, and the drain
\* calls send_json with it on every WebSocket of its snapshot, (2) the
\* snapshot holds the WebSockets registered at the moment of the drain and
\* the batch is the whole pending list, (3) no WebSocket is sent the same
\* event twice, (4) the pending list is left alone while no WebSocket is
\* registered, and (5) the stored history is the last max_history arrived
\* events in arrival order
C29_Broadcast ==
    /\ [](/\ \A i \in DOMAIN Arrived :
                LET e == Arrived[i]
                IN  /\ Occurrences(_pending_events, e)
                         + Occurrences(task.events_to_send, e) <= 1
                    /\ e \notin Range(_pending_events) =>
                          \/ /\ e \in Range(task.events_to_send)
                             /\ task.websockets_to_notify # <<>>
                          \/ \E websocket \in DOMAIN wire : SentTo(websocket, e)
          /\ \A i \in DOMAIN task.events_to_send :
                \A j \in DOMAIN task.websockets_to_notify :
                    Attempted(i, j) =>
                        SentTo(task.websockets_to_notify[j], task.events_to_send[i])
          /\ \A websocket \in DOMAIN wire :
                \A e \in Range(wire[websocket]) : Occurrences(wire[websocket], e) = 1
          /\ Len(_completion_events) <= max_history
          /\ LET n == Len(Arrived)
                 kept == IF n > max_history THEN max_history ELSE n
             IN  _completion_events = SubSeq(Arrived, n - kept + 1, n))
    /\ [][/\ _pending_events # <<>> /\ _active_websockets = {} =>
                \A i \in DOMAIN _pending_events :
                    i \in DOMAIN _pending_events'
                        /\ _pending_events'[i] = _pending_events[i]
          /\ Len(_pending_events') < Len(_pending_events) =>
                /\ _pending_events' = <<>>
                /\ task'.events_to_send = _pending_events
                /\ Range(task'.websockets_to_notify) = _active_websockets
                /\ task'.pc = "send"]_vars

\* three events arrived, so the history dropped the oldest; the first waited
\* while no WebSocket was registered and was then sent to both WebSockets of
\* the drain, and the task sleeps again
C29_Witness ==
    /\ Len(history) = 3
    /\ Len(_completion_events) = max_history
    /\ task.pc = "loop"
    /\ Len(task.websockets_to_notify) = 2
    /\ \A websocket \in WebSockets :
          /\ websocket \in DOMAIN wire
          /\ SentTo(websocket, Arrived[1])
    /\ _pending_events # <<>>

-----------------------------------------------------------------------------
(* The module random, as variations.py and transformations.py use it.  The   *)
(* state of the generator fixes every number it yields from then on; the     *)
(* model keeps that sequence, which repeats, and one call to random,         *)
(* randint or choice uses up its first number.                               *)

RandomValues == {0, 2, 3, 10}

\* the states a caller can seed the generator with
RandomStates == RandomValues \X RandomValues \X RandomValues

\* the state after one number was drawn
Advance(state) == Tail(state) \o <<Head(state)>>

\* a number below n
_randbelow(state, n) == Head(state) % n

\* random.random(): a number in [0, 1)
random(state) == Rat(Head(state), SetMax(RandomValues) + 1)

\* random.randint(a, b)
randint(state, a, b) == a + _randbelow(state, b - a + 1)

\* random.choice(seq)
choice(state, seq) == seq[_randbelow(state, Len(seq)) + 1]

-----------------------------------------------------------------------------
(* transformations.py: MusicTransformer.ornament and its helpers *)

create_turn(note_data) ==
    LET base_time == note_data.time
        base_pitch == note_data.midi
        pitches == <<base_pitch + find_diatonic_interval(base_pitch, 1),
                     base_pitch,
                     base_pitch + find_diatonic_interval(base_pitch, -1),
                     base_pitch>>
        duration_each == RDiv(note_data.duration, RInt(4))
    IN  [x \in 1..4 |->
            LET i == x - 1
            IN  [note_data EXCEPT
                    !.midi = pitches[x],
                    !.time = RAdd(base_time, RMul(RInt(i), duration_each)),
                    !.duration = duration_each,
                    !.velocity = RMul(note_data.velocity,
                                      IF i # 1 THEN Rat(8, 10) ELSE RInt(1))]]

create_mordent(note_data) ==
    LET base_pitch == note_data.midi
    IN  << [note_data EXCEPT !.duration = Rat(1, 10),
                             !.velocity = RMul(note_data.velocity, Rat(8, 10))],
           [note_data EXCEPT
               !.midi = base_pitch + find_diatonic_interval(base_pitch, -1),
               !.time = RAdd(note_data.time, Rat(1, 10)),
               !.duration = Rat(1, 10),
               !.velocity = RMul(note_data.velocity, Rat(7, 10))],
           [note_data EXCEPT !.time = RAdd(note_data.time, Rat(2, 10)),
                             !.duration = RSub(note_data.duration, Rat(2, 10))] >>

create_simple_ending(note_data) ==
    << note_data,
       [note_data EXCEPT !.midi = note_data.midi - 2,
                         !.time = RAdd(note_data.time, note_data.duration),
                         !.duration = Rat(2, 10),
                         !.velocity = RMul(note_data.velocity, Rat(5, 10))] >>

\* the chromatic approach of the jazz style
GraceNote(note_data) ==
    [note_data EXCEPT !.midi = note_data.midi - 1,
                      !.time = RSub(note_data.time, Rat(1, 10)),
                      !.duration = Rat(1, 10),
                      !.velocity = RMul(note_data.velocity, Rat(6, 10))]

\* does the loop body draw a number for this note?  `and` evaluates its
\* right operand only when the left one holds
OrnamentDraws(note_data, style) ==
    CASE style = "classical" -> RLt(Rat(5, 10), note_data.duration)
      [] style = "jazz" -> TRUE
      [] style = "baroque" -> RLt(Rat(3, 10), note_data.duration)
      [] OTHER -> FALSE

\* the notes the loop body appends for notes[i] (i counted from 0)
OrnamentNote(notes, i, style, state) ==
    LET note_data == notes[i + 1]
    IN  CASE style = "classical" ->
               IF RLt(Rat(5, 10), note_data.duration) /\ RLt(random(state), Rat(3, 10))
               THEN create_turn(note_data)
               ELSE <<note_data>>
          [] style = "jazz" ->
               IF RLt(random(state), Rat(2, 10)) /\ i > 0
               THEN <<GraceNote(note_data), note_data>>
               ELSE <<note_data>>
          [] style = "baroque" ->
               IF RLt(Rat(3, 10), note_data.duration) /\ RLt(random(state), Rat(25, 100))
               THEN create_mordent(note_data)
               ELSE <<note_data>>
          [] OTHER ->
               IF i = Len(notes) - 1 /\ RLt(RInt(1), note_data.duration)
               THEN create_simple_ending(note_data)
               ELSE <<note_data>>

\* the loop of ornament from index i on: the notes and the generator's state
RECURSIVE OrnamentFrom(_, _, _, _)
OrnamentFrom(notes, style, i, state) ==
    IF i >= Len(notes) THEN [notes |-> <<>>, state |-> state]
    ELSE LET rest == OrnamentFrom(notes, style, i + 1,
                                  IF OrnamentDraws(notes[i + 1], style)
                                  THEN Advance(state) ELSE state)
         IN  [notes |-> OrnamentNote(notes, i, style, state) \o rest.notes,
              state |-> rest.state]

ornament(notes, style, state) == OrnamentFrom(notes, style, 0, state)

-----------------------------------------------------------------------------
(* variations.py: VariationGenerator.generate_batch *)

\* the list variation_types defaults to
DefaultTypes ==
    << "transpose_up", "transpose_down",
       "transpose_diatonic_up", "transpose_diatonic_down",
       "invert_center", "invert_first", "invert_last",
       "augment", "diminish",
       "ornament_classical", "ornament_jazz",
       "develop_sequence", "develop_retrograde",
       "harmonize_third", "harmonize_fifth",
       "counter_contrary", "counter_parallel" >>

\* the argument variation_types: None, or a list
NoTypes == [given |-> FALSE, list |-> <<>>]
Types(list) == [given |-> TRUE, list |-> list]

\* str(factor) of the factors generate_batch chooses from
AugmentFactors == <<Rat(3, 2), RInt(2), Rat(5, 2)>>
AugmentFactorText == <<"1.5", "2.0", "2.5">>
DiminishFactors == <<Rat(1, 2), Rat(33, 50), Rat(3, 4)>>
DiminishFactorText == <<"0.5", "0.66", "0.75">>

\* a result of one branch of generate_batch
Produced(notes, method, state) == [notes |-> notes, method |-> method, state |-> state]

\* the fallback with the range of the draw widened to -7..7
Fallback_wide(seed_notes, state) ==
    Produced(transpose(seed_notes, randint(state, -7, 7)),
             "Transpose (random)", Advance(state))

\* lines 127-130: the branch of a type that is none of the seventeen
Fallback(seed_notes, state) ==
    Produced(transpose(seed_notes, randint(state, -5, 5)),
             "Transpose (random)", Advance(state))

\* lines 56-61: method = f"Transpose +{notes[0]['midi'] - seed_notes[0]['midi']}
\* semitones", after the one draw of the branch
Transposed(seed_notes, notes, prefix, state) ==
    Produced(notes,
             prefix \o ToString(notes[1].midi - seed_notes[1].midi) \o " semitones",
             Advance(state))

\* lines 64-71: steps is drawn, then used for the notes and for the method
DiatonicTransposed(seed_notes, steps, prefix, state) ==
    Produced(transpose_diatonic(seed_notes, steps),
             prefix \o ToString(steps) \o " steps",
             Advance(state))

\* lines 96-101: ornament draws as often as its loop asks
Ornamented(ornamented, method) ==
    Produced(ornamented.notes, method, ornamented.state)

\* lines 55-130: the notes and the method of one variation
Varied(seed_notes, var_type, state) ==
    CASE var_type = "transpose_up" ->
            Transposed(seed_notes, transpose(seed_notes, randint(state, 1, 7)),
                       "Transpose +", state)
      [] var_type = "transpose_down" ->
            Transposed(seed_notes, transpose(seed_notes, randint(state, -7, -1)),
                       "Transpose ", state)
      [] var_type = "transpose_diatonic_up" ->
            DiatonicTransposed(seed_notes, randint(state, 1, 4),
                               "Diatonic transpose +", state)
      [] var_type = "transpose_diatonic_down" ->
            DiatonicTransposed(seed_notes, randint(state, -4, -1),
                               "Diatonic transpose ", state)
      [] var_type = "invert_center" ->
            Produced(invert(seed_notes, "center"), "Invert around center", state)
      [] var_type = "invert_first" ->
            Produced(invert(seed_notes, "first-note"), "Invert around first note", state)
      [] var_type = "invert_last" ->
            Produced(invert(seed_notes, "last-note"), "Invert around last note", state)
      [] var_type = "augment" ->
            LET k == _randbelow(state, Len(AugmentFactors)) + 1
            IN  Produced(augment(seed_notes, AugmentFactors[k]),
                         "Augment ×" \o AugmentFactorText[k], Advance(state))
      [] var_type = "diminish" ->
            LET k == _randbelow(state, Len(DiminishFactors)) + 1
            IN  Produced(diminish(seed_notes, DiminishFactors[k]),
                         "Diminish ×" \o DiminishFactorText[k], Advance(state))
      [] var_type = "ornament_classical" ->
            Ornamented(ornament(seed_notes, "classical", state),
                       "Classical ornamentation")
      [] var_type = "ornament_jazz" ->
            Ornamented(ornament(seed_notes, "jazz", state), "Jazz ornamentation")
      [] var_type = "develop_sequence" ->
            Produced(develop(seed_notes, "sequence"), "Sequential development", state)
      [] var_type = "develop_retrograde" ->
            Produced(develop(seed_notes, "retrograde"), "Retrograde", state)
      [] var_type = "harmonize_third" ->
            Produced(harmonize(seed_notes, 3), "Harmonize at 3rd", state)
      [] var_type = "harmonize_fifth" ->
            Produced(harmonize(seed_notes, 5), "Harmonize at 5th", state)
      [] var_type = "counter_contrary" ->
            Produced(counter_melody(seed_notes, "contrary"),
                     "Counter melody (contrary)", state)
      [] var_type = "counter_parallel" ->
            Produced(counter_melody(seed_notes, "parallel"),
                     "Counter melody (parallel)", state)
      [] OTHER -> Fallback(seed_notes, state)

\* the variation record with the seed's length written twice
VariationRecord_seed_length_twice(i, seed_notes, var_type, produced, now) ==
    [id |-> <<"var", i + 1, now>>,
     notes |-> produced.notes,
     metadata |-> [method |-> produced.method,
                   variation_type |-> var_type,
                   seed_length |-> Len(seed_notes),
                   output_length |-> Len(seed_notes),
                   scale |-> scale_type,
                   key |-> root_note,
                   timestamp |-> now]]

\* lines 133-145; the id is 'var_', i + 1 and the instant datetime.now()
\* gives, the timestamp is that instant in ISO format
VariationRecord(i, seed_notes, var_type, produced, now) ==
    [id |-> <<"var", i + 1, now>>,
     notes |-> produced.notes,
     metadata |-> [method |-> produced.method,
                   variation_type |-> var_type,
                   seed_length |-> Len(seed_notes),
                   output_length |-> Len(produced.notes),
                   scale |-> scale_type,
                   key |-> root_note,
                   timestamp |-> now]]

\* a variation put in front of those of the later iterations
Prepend(variation, rest) ==
    [raised |-> FALSE, value |-> <<variation>> \o rest.value, state |-> rest.state]

\* the loop of lines 50-147 from index i on
RECURSIVE BatchFrom(_, _, _, _, _, _)

\* lines 132-147 of iteration i, and the iterations after it
BatchAppend(seed_notes, count, types, i, var_type, produced, now) ==
    Prepend(VariationRecord(i, seed_notes, var_type, produced, now),
            BatchFrom(seed_notes, count, types, i + 1, produced.state, now))

\* lines 52-130 of iteration i: the type is drawn, then its branch runs
BatchStep(seed_notes, count, types, i, var_type, state, now) ==
    BatchAppend(seed_notes, count, types, i, var_type,
                Varied(seed_notes, var_type, state), now)

BatchFrom(seed_notes, count, types, i, state, now) ==
    IF i >= count THEN [raised |-> FALSE, value |-> <<>>, state |-> state]
    ELSE BatchStep(seed_notes, count, types, i, choice(state, types),
                   Advance(state), now)

\* the types the loop draws from
TypesOf(variation_types) ==
    IF variation_types.given THEN variation_types.list ELSE DefaultTypes

\* the outcome of the call and the state it leaves the generator in;
\* random.choice raises IndexError on an empty list
generate_batch(seed_notes, count, variation_types, state, now) ==
    IF seed_notes = <<>> THEN [raised |-> FALSE, value |-> <<>>, state |-> state]
    ELSE IF count > 0 /\ TypesOf(variation_types) = <<>>
    THEN [raised |-> TRUE, value |-> "IndexError", state |-> state]
    ELSE BatchFrom(seed_notes, count, TypesOf(variation_types), 0, state, now)

-----------------------------------------------------------------------------
(* Specification SpecBatch: a VariationGenerator, the generator of random    *)
(* seeded by the caller, and the clock.  generate_batch is called, time may  *)
(* pass, the caller may put the generator back into the state of the first   *)
(* call and call again with the same arguments.                              *)

\* how many variations a call asks for
MaxCount == 2

BatchSlot == <<Rat(1, 2), RInt(2)>>

BatchSeeds ==
    { <<>>,
      <<Note(60, Slot1)>>,
      <<Note(61, Slot1), Note(64, BatchSlot)>> }

UnknownType == "shuffle"

BatchTypes ==
    {NoTypes, Types(<<>>), Types(<<"transpose_up", UnknownType>>)}
        \cup {Types(<<t>>) : t \in Range(DefaultTypes) \cup {UnknownType, ""}}

BatchScales == {"pentatonic", UnknownScale}

\* the instants the clock shows
Instants == 0..1

InitBatch ==
    /\ scale_type \in BatchScales
    /\ root_note = "D"
    /\ set_order = "ascending"
    /\ variations = NoVariations
    /\ op = "idle"
    /\ args = NoArgs
    /\ ret = NoResult
    /\ random_state \in RandomStates
    /\ clock = 0
    /\ _loops = <<>>
    /\ history = <<>>
    /\ completion_events = <<>>
    /\ pending_events = <<>>
    /\ active_websockets = {}
    /\ _completion_events = <<>>
    /\ _pending_events = <<>>
    /\ _active_websockets = {}
    /\ handler = {}
    /\ task = TaskIdle
    /\ wire = <<>>

BatchFrame ==
    UNCHANGED <<scale_type, root_note, set_order, variations, _loops, history,
                completion_events, pending_events, active_websockets,
                _completion_events, _pending_events, _active_websockets,
                handler, task, wire>>

GenerateBatch ==
    /\ op = "idle"
    /\ \E seed_notes \in BatchSeeds, count \in 0..MaxCount, variation_types \in BatchTypes :
          \E outcome \in {generate_batch(seed_notes, count, variation_types,
                                         random_state, clock)} :
              /\ op' = "generate_batch"
              /\ args' = [seed_notes |-> seed_notes, count |-> count,
                          variation_types |-> variation_types,
                          state |-> random_state, again |-> FALSE, first |-> NoResult]
              /\ ret' = [raised |-> outcome.raised, value |-> outcome.value]
              /\ random_state' = outcome.state
              /\ UNCHANGED clock
              /\ BatchFrame

\* time passes
Tick ==
    /\ clock + 1 \in Instants
    /\ clock' = clock + 1
    /\ UNCHANGED <<op, args, ret, random_state>>
    /\ BatchFrame

\* random.setstate, or random.seed with the seed used before the first call
SetState ==
    /\ op = "generate_batch"
    /\ ~args.again
    /\ random_state # args.state
    /\ random_state' = args.state
    /\ UNCHANGED <<op, args, ret, clock>>
    /\ BatchFrame

\* the second run: the same arguments, the generator in the same state
GenerateBatchAgain ==
    /\ op = "generate_batch"
    /\ ~args.again
    /\ random_state = args.state
    /\ \E outcome \in {generate_batch(args.seed_notes, args.count, args.variation_types,
                                       random_state, clock)} :
        /\ op' = "generate_batch"
        /\ args' = [args EXCEPT !.again = TRUE, !.first = ret]
        /\ ret' = [raised |-> outcome.raised, value |-> outcome.value]
        /\ random_state' = outcome.state
        /\ UNCHANGED clock
        /\ BatchFrame

NextBatch ==
    \/ GenerateBatch
    \/ Tick
    \/ SetState
    \/ GenerateBatchAgain
    \/ Return

SpecBatch == InitBatch /\ [][NextBatch]_vars

\* the types the call may choose from
Allowed(variation_types) ==
    IF variation_types.given THEN variation_types.list ELSE DefaultTypes

C23_Deterministic ==
    (op = "generate_batch" /\ args.again) => ret = args.first

\* C24: a scale name that is not in the table of get_scale_intervals gives
\* the major offsets, and a variation type that is none of the seventeen
\* makes generate_batch return, without raising, a variation whose notes are
\* the seed transposed by some number of semitones in -5..5 and whose method
\* is "Transpose (random)"
C24_Fallbacks ==
    /\ scale_type \notin ScaleNames => scale_intervals = <<0, 2, 4, 5, 7, 9, 11>>
    /\ (op = "generate_batch" /\ args.seed_notes # <<>>
            /\ Allowed(args.variation_types) # <<>>) =>
          /\ ~ret.raised
          /\ \A i \in DOMAIN ret.value :
                LET v == ret.value[i]
                IN  v.metadata.variation_type \notin Range(DefaultTypes) =>
                        /\ v.metadata.method = "Transpose (random)"
                        /\ \E semitones \in -5..5 :
                              v.notes = transpose(args.seed_notes, semitones)

\* under a scale name the table does not have, a type the catalog does not
\* have gave the seed five semitones lower
C24_Witness ==
    /\ scale_type \notin ScaleNames
    /\ op = "generate_batch"
    /\ args.seed_notes # <<>>
    /\ ~ret.raised
    /\ Len(ret.value) >= 1
    /\ ret.value[1].metadata.variation_type = UnknownType
    /\ ret.value[1].notes = transpose(args.seed_notes, -5)

====
